---- MODULE Spec2Model ----
(***************************************************************************)
(* Model of the live transcription pipeline of sandbox-translate:          *)
(*   - the transcript store (src/lib/state.ts, useTranscriptionStore),     *)
(*   - topic detection (src/lib/state.ts, detectTopic),                    *)
(*   - the bridge to the AI session (src/components/Sidebar.tsx),          *)
(*   - the remote streaming client (AssemblyAIClient),                     *)
(*   - the local recognizer and the provider effects of the Sidebar,       *)
(*   - the conversation-turn log (src/lib/state.ts, useLogStore).          *)
(* Texts are sequences of one-character strings, so that toLowerCase and   *)
(* includes are computed character by character.                           *)
(***************************************************************************)
EXTENDS Naturals, Sequences, FiniteSets

VARIABLES
  entries,   \* useTranscriptionStore.entries: the transcript log
  lastOp,    \* history: the store operation that ran last, its arguments,
             \* the length of the log before it ran, and the socket whose
             \* transcript event made the call (0: none)
  dtText,    \* detectTopic: the text handed to the function
  dtDone,    \* detectTopic: has the call returned
  dtResult,  \* detectTopic: what it returned for dtText
  isListening,        \* useTranscriptionStore.isListening
  audioSource,        \* useTranscriptionStore.audioSource
  language,           \* useTranscriptionStore.language
  assemblyClientRef,  \* Sidebar: assemblyClientRef.current, 0 for null
  clients,   \* every AssemblyAIClient constructed so far, in order
  sockets,   \* every WebSocket constructed so far, in order
  liveStatus,         \* the AI session: liveClient.status
  isProcessing,       \* useUI.isProcessing
  sendsSinceComplete, \* history: liveClient.send calls since the last
                      \* turncomplete event
  lastSent,  \* history: the text of the latest liveClient.send
  deferred,  \* history: the text of the latest final transcript that
             \* arrived while isProcessing, since the last turncomplete
  provider,        \* useTranscriptionStore.provider
  activeTab,       \* useUI.activeTab
  recognitionRef,  \* Sidebar: recognitionRef.current, 0 for null
  recognizers,     \* every SpeechRecognition constructed so far, in order
  recWhy,    \* history: the latest of a start request and a stop request
             \* made with the local provider selected and a not-allowed
             \* error of a recognizer
  turns,     \* useLogStore.turns: the conversation-turn log
  mediaMode,       \* useSettings.mediaMode
  zoomConfig,      \* useSettings.zoomConfig
  lastToolCall,    \* history: the function calls of the tool-call message
                   \* handled by the latest step, with the configuration and
                   \* the media mode before it; NoToolCall after other steps
                   \* of the settings store
  tools      \* useTools.tools: the function declarations

storeVars == <<entries, lastOp>>
topicVars == <<dtText, dtDone, dtResult>>
sidebarVars == <<isListening, audioSource, language, assemblyClientRef>>
clientVars == <<clients, sockets>>
sessionVars == <<liveStatus, isProcessing, sendsSinceComplete, lastSent,
                 deferred>>
logVars == <<turns>>
settingsVars == <<mediaMode, zoomConfig, lastToolCall>>
toolVars == <<tools>>
appVars == <<settingsVars, toolVars>>
bridgeVars == <<sessionVars, logVars, appVars>>
recVars == <<provider, activeTab, recognitionRef, recognizers, recWhy>>
pipeVars == <<sidebarVars, clientVars, bridgeVars, recVars>>
pipeVars_noApp == <<sidebarVars, clientVars, sessionVars, logVars, recVars>>
vars == <<entries, lastOp, dtText, dtDone, dtResult, isListening,
          audioSource, language, assemblyClientRef, clients, sockets, liveStatus,
          isProcessing, sendsSinceComplete, lastSent, deferred, provider,
          activeTab, recognitionRef, recognizers, recWhy, turns, mediaMode,
          zoomConfig, lastToolCall, tools>>

----------------------------------------------------------------------------
(* Bounds *)

MaxLog == 3      \* longest transcript log explored
MaxFrags == 2    \* a detectTopic input is made of at most this many fragments
MaxClients == 2  \* AssemblyAIClient objects constructed in one run
MaxSockets == 2  \* WebSockets constructed in one run
MaxPipeLog == 2  \* longest transcript log the pipeline fills
MaxInFlight == 2 \* liveClient.send calls explored between two turncompletes
MaxRecognitions == 1  \* SpeechRecognition objects constructed in one run
MaxTurns == 2    \* longest conversation-turn log explored
MaxResults == 2  \* results that one result event of a recognizer carries
MaxFrames == 1   \* audio_data frames sent on one socket
MaxCalls == 2    \* function calls that one tool-call message carries
MaxTools == 3    \* longest list of function declarations explored

----------------------------------------------------------------------------
(* Characters and strings *)

Upper == <<"A","B","C","D","E","F","G","H","I","J","K","L","M",
           "N","O","P","Q","R","S","T","U","V","W","X","Y","Z">>
Lower == <<"a","b","c","d","e","f","g","h","i","j","k","l","m",
           "n","o","p","q","r","s","t","u","v","w","x","y","z">>

Alphabet == { Upper[i] : i \in 1..Len(Upper) }
              \cup { Lower[i] : i \in 1..Len(Lower) } \cup { " " }

\* String.prototype.toLowerCase on one character: an upper-case letter
\* becomes its lower-case letter, every other character is kept
LowerTable ==
  [ c \in Alphabet |->
      IF \E i \in 1..Len(Upper) : Upper[i] = c
      THEN Lower[CHOOSE i \in 1..Len(Upper) : Upper[i] = c]
      ELSE c ]

LowerChar(c) == LowerTable[c]

\* String.prototype.toLowerCase
toLowerCase(s) == [i \in 1..Len(s) |-> LowerChar(s[i])]

\* does pat occur in s at position i (1-based)
MatchAt(s, pat, i) ==
  /\ i + Len(pat) - 1 <= Len(s)
  /\ SubSeq(s, i, i + Len(pat) - 1) = pat

RECURSIVE IncludesFrom(_, _, _)
IncludesFrom(s, pat, i) ==
  IF i + Len(pat) - 1 > Len(s) THEN FALSE
  ELSE IF MatchAt(s, pat, i) THEN TRUE
  ELSE IncludesFrom(s, pat, i + 1)

\* String.prototype.includes: scan from the first position
includes(s, pat) == IncludesFrom(s, pat, 1)

----------------------------------------------------------------------------
(* detectTopic, src/lib/state.ts:246-253 *)

NoTopic == "undefined"

KwCoordination == { <<"z","o","o","m">>, <<"m","e","e","t">>,
                    <<"c","a","l","l">>, <<"j","o","i","n">> }
KwDevelopment  == { <<"c","o","d","e">>,
                    <<"f","u","n","c","t","i","o","n">>,
                    <<"b","u","g">>, <<"a","p","i">> }
KwBusiness     == { <<"p","r","i","c","e">>, <<"c","o","s","t">>,
                    <<"b","u","y">>, <<"s","e","l","l">> }
KwCasual       == { <<"h","e","l","l","o">>, <<"h","i"," ">>,
                    <<"b","y","e">> }

detectTopic_devFirst(text) ==
  LET lower == toLowerCase(text) IN
  IF \E k \in KwDevelopment : includes(lower, k) THEN "Development"
  ELSE IF \E k \in KwCoordination : includes(lower, k) THEN "Coordination"
  ELSE IF \E k \in KwBusiness : includes(lower, k) THEN "Business"
  ELSE IF \E k \in KwCasual : includes(lower, k) THEN "Casual"
  ELSE NoTopic

detectTopic(text) ==
  LET lower == toLowerCase(text) IN
  IF \E k \in KwCoordination : includes(lower, k) THEN "Coordination"
  ELSE IF \E k \in KwDevelopment : includes(lower, k) THEN "Development"
  ELSE IF \E k \in KwBusiness : includes(lower, k) THEN "Business"
  ELSE IF \E k \in KwCasual : includes(lower, k) THEN "Casual"
  ELSE NoTopic

----------------------------------------------------------------------------
(* Inputs *)

\* pieces of text the detectTopic inputs are assembled from
Fragments ==
  { <<"Z","o","o","m">>,          \* Coordination, mixed case
    <<"j","o","i","n">>,          \* Coordination
    <<"B","U","G">>,              \* Development, upper case
    <<"a","p">>, <<"i">>,         \* "ap" + "i" = "api" across fragments
    <<"c","o","s","t">>,          \* Business
    <<"S","e","l","l">>,          \* Business, mixed case
    <<"h","e","l","l","o">>,      \* Casual
    <<"h","i">>, <<" ">>,         \* "hi" matches only when a space follows
    <<"b","y","e">>,              \* Casual
    <<"x">> }                     \* no keyword

RECURSIVE TextsUpTo(_)
TextsUpTo(n) ==
  IF n = 0 THEN { <<>> }
  ELSE LET shorter == TextsUpTo(n - 1) IN
       shorter \cup { t \o f : t \in shorter, f \in Fragments }

Texts == TextsUpTo(MaxFrags)

\* texts the transcript store is driven with
StoreTexts ==
  { <<"Z","o","o","m"," ","b","u","g">>,   \* Coordination before Development
    <<"h","i">> }                          \* no topic
Languages == { "auto", "en-US" }
Speakers == { "Speaker", "You" }

----------------------------------------------------------------------------
(* useTranscriptionStore, src/lib/state.ts:257-317 *)

\* A TranscriptEntry.  The id (Math.random) and the timestamp (wall clock)
\* are fresh values that no operation reads; they are left out.
NewEntry(text, isFinal, lang, speaker) ==
  [ text |-> text, isFinal |-> isFinal,
    topic |-> IF isFinal THEN detectTopic(text) ELSE NoTopic,
    language |-> lang, speaker |-> speaker ]

addEntry_alwaysAppend(es, text, isFinal, lang, speaker) ==
  Append(es, NewEntry(text, isFinal, lang, speaker))

addEntry_replaceAny(es, text, isFinal, lang, speaker) ==
  IF Len(es) > 0
  THEN [es EXCEPT ![Len(es)] = NewEntry(text, isFinal, lang, speaker)]
  ELSE Append(es, NewEntry(text, isFinal, lang, speaker))

\* the reducer of addEntry: the log after the call
addEntry(es, text, isFinal, lang, speaker) ==
  LET newEntry == NewEntry(text, isFinal, lang, speaker) IN
  IF Len(es) > 0 /\ ~es[Len(es)].isFinal
  THEN [es EXCEPT ![Len(es)] = newEntry]
  ELSE Append(es, newEntry)

\* the reducer of updateLastEntry
updateLastEntry(es, text) ==
  IF Len(es) = 0 THEN es
  ELSE [es EXCEPT ![Len(es)] =
          [es[Len(es)] EXCEPT !.text = text, !.topic = detectTopic(text)]]

clearEntries_keepsTail(es) ==
  IF Len(es) > 0 /\ ~es[Len(es)].isFinal THEN <<es[Len(es)]>> ELSE <<>>

\* the reducer of clearEntries
clearEntries(es) == <<>>

NoArgs == [text |-> <<>>, isFinal |-> FALSE, lang |-> "", speaker |-> ""]

AddEntry(text, isFinal, lang, speaker) ==
  /\ \/ Len(entries) < MaxLog
     \/ Len(entries) > 0 /\ ~entries[Len(entries)].isFinal
  /\ entries' = addEntry(entries, text, isFinal, lang, speaker)
  /\ lastOp' = [name |-> "addEntry",
                args |-> [text |-> text, isFinal |-> isFinal,
                          lang |-> lang, speaker |-> speaker],
                lenBefore |-> Len(entries), from |-> 0]
  /\ UNCHANGED <<topicVars, pipeVars>>

UpdateLastEntry(text) ==
  /\ entries' = updateLastEntry(entries, text)
  /\ lastOp' = [name |-> "updateLastEntry",
                args |-> [NoArgs EXCEPT !.text = text],
                lenBefore |-> Len(entries), from |-> 0]
  /\ UNCHANGED <<topicVars, pipeVars>>

ClearEntries ==
  /\ entries' = clearEntries(entries)
  /\ lastOp' = [name |-> "clearEntries", args |-> NoArgs,
                lenBefore |-> Len(entries), from |-> 0]
  /\ UNCHANGED <<topicVars, pipeVars>>

----------------------------------------------------------------------------
(* The settings store and the tool-call handler,                           *)
(* src/lib/state.ts:20-76 and StreamingConsole.tsx:154-176                 *)

MediaModes == { "youtube", "zoom", "audio" }

\* argument values of a function call; "" stands for a missing or an empty
\* argument, which a || b treats alike
MeetingIds == { "", "111" }
Passcodes == { "", "p1" }
UserNames == { "", "Bot" }

\* the function calls a tool-call message can carry: join_meeting with its
\* arguments, and a call of another function
FunctionCalls ==
  [ name : { "join_meeting" },
    args : [ meetingId : MeetingIds, passcode : Passcodes,
             userName : UserNames ] ]
  \cup { [ name |-> "leave_meeting",
           args |-> [ meetingId |-> "111", passcode |-> "p1",
                      userName |-> "Bot" ] ] }

ToolCallMessages ==
  UNION { [ 1..n -> FunctionCalls ] : n \in 1..MaxCalls }

NoToolCall == [ calls |-> <<>>,
                zoomConfig |-> [meetingId |-> "", passcode |-> "",
                                userName |-> "", joinUrl |-> ""],
                mediaMode |-> "none" ]

\* a || b on strings: a unless it is empty
OrElse(a, b) == IF a # "" THEN a ELSE b

\* setMediaMode, state.ts:69
setMediaMode(st, mode) == [st EXCEPT !.mediaMode = mode]

\* setZoomConfig, state.ts:73-74: the partial configuration is merged into
\* the configuration the store holds now
setZoomConfig(st, config) ==
  [st EXCEPT !.zoomConfig =
     [f \in DOMAIN @ |-> IF f \in DOMAIN config THEN config[f] ELSE @[f]]]

\* the body of the loop of onToolCall, lines 157-166; closure is the
\* zoomConfig the handler captured when the effect registered it (line 175)
onFunctionCall(st, fc, closure) ==
  IF fc.name = "join_meeting"
  THEN setMediaMode(
         setZoomConfig(st,
           [meetingId |-> OrElse(fc.args.meetingId, closure.meetingId),
            passcode |-> OrElse(fc.args.passcode, closure.passcode),
            userName |-> OrElse(fc.args.userName, closure.userName)]),
         "zoom")
  ELSE st

RECURSIVE onToolCallLoop(_, _, _, _)
onToolCallLoop(st, calls, i, closure) ==
  IF i > Len(calls) THEN st
  ELSE onToolCallLoop(onFunctionCall(st, calls[i], closure), calls, i + 1,
                      closure)

\* onToolCall, lines 155-168: the effect has run after the latest render,
\* so the handler holds the configuration of the state it is called in
onToolCall(st, calls) == onToolCallLoop(st, calls, 1, st.zoomConfig)

Settings == [zoomConfig |-> zoomConfig, mediaMode |-> mediaMode]

\* a toolcall event of the AI session
ToolCall(calls) ==
  /\ LET done == onToolCall(Settings, calls)
     IN /\ zoomConfig' = done.zoomConfig
        /\ mediaMode' = done.mediaMode
  /\ lastToolCall' = [calls |-> calls, zoomConfig |-> zoomConfig,
                      mediaMode |-> mediaMode]
  /\ UNCHANGED <<storeVars, topicVars, pipeVars_noApp, toolVars>>

\* the media-mode select of the integrations tab, Sidebar.tsx:387-388
SetMediaMode(mode) ==
  /\ activeTab = "integrations"
  /\ mode # mediaMode
  /\ mediaMode' = setMediaMode(Settings, mode).mediaMode
  /\ lastToolCall' = NoToolCall
  /\ UNCHANGED <<zoomConfig, storeVars, topicVars, pipeVars_noApp, toolVars>>

\* the display-name input of the integrations tab, Sidebar.tsx:425-426,
\* rendered while the media mode is zoom (line 410)
SetZoomUserName(name) ==
  /\ activeTab = "integrations"
  /\ mediaMode = "zoom"
  /\ name # zoomConfig.userName
  /\ zoomConfig' = setZoomConfig(Settings, [userName |-> name]).zoomConfig
  /\ lastToolCall' = NoToolCall
  /\ UNCHANGED <<mediaMode, storeVars, topicVars, pipeVars_noApp, toolVars>>

----------------------------------------------------------------------------
(* The function declarations, src/lib/state.ts:110-183 *)

\* zoomTools, src/unnamed/part_000:223-248
zoomTools ==
  << [name |-> "join_meeting", isEnabled |-> TRUE, description |-> "join"] >>

\* the name addTool tries after counter names were taken: `new_function`
\* first, then `new_function_${counter}`
newFunctionName(counter) ==
  CASE counter = 0 -> "new_function"
    [] counter = 1 -> "new_function_1"
    [] counter = 2 -> "new_function_2"
    [] counter = 3 -> "new_function_3"
    [] counter = 4 -> "new_function_4"
    [] OTHER -> "new_function_5"

ToolNames == { "join_meeting", "leave_meeting", "new_function",
               "new_function_1" }

\* the tools the editor can hand to updateTool
UpdatedTools ==
  [ name : ToolNames, isEnabled : BOOLEAN, description : { "", "join" } ]

some(ts, name) == \E i \in 1..Len(ts) : ts[i].name = name

\* toggleTool, lines 135-140
toggleTool(ts, toolName) ==
  [ i \in 1..Len(ts) |->
      IF ts[i].name = toolName
      THEN [ts[i] EXCEPT !.isEnabled = ~ts[i].isEnabled]
      ELSE ts[i] ]

\* the while loop of addTool, lines 143-147; tried is the number of names
\* tried so far
RECURSIVE addToolName(_, _)
addToolName(ts, tried) ==
  IF some(ts, newFunctionName(tried)) THEN addToolName(ts, tried + 1)
  ELSE newFunctionName(tried)

\* addTool, lines 141-163
addTool(ts) ==
  Append(ts, [name |-> addToolName(ts, 0), isEnabled |-> TRUE,
              description |-> ""])

\* removeTool, lines 164-167
removeTool(ts, toolName) ==
  SelectSeq(ts, LAMBDA tool : tool.name # toolName)

updateTool_noCheck(ts, oldName, updatedTool) ==
  [ i \in 1..Len(ts) |->
      IF ts[i].name = oldName THEN updatedTool ELSE ts[i] ]

\* updateTool, lines 168-182
updateTool(ts, oldName, updatedTool) ==
  IF oldName # updatedTool.name /\ some(ts, updatedTool.name) THEN ts
  ELSE [ i \in 1..Len(ts) |->
           IF ts[i].name = oldName THEN updatedTool ELSE ts[i] ]

\* useSettings, src/lib/state.ts:52 and 56-61
InitSettings ==
  /\ mediaMode = "youtube"
  /\ zoomConfig = [meetingId |-> "", passcode |-> "",
                   userName |-> "AI Assistant", joinUrl |-> ""]
  /\ lastToolCall = NoToolCall

\* useTools, src/lib/state.ts:119: tools starts as zoomTools
InitTools == tools = zoomTools

InitApp == InitSettings /\ InitTools

InitStore ==
  /\ entries = <<>>
  /\ lastOp = [name |-> "init", args |-> NoArgs, lenBefore |-> 0, from |-> 0]

InitTopicIdle ==
  /\ dtText = <<>>
  /\ dtDone = FALSE
  /\ dtResult = NoTopic

\* the local provider is not selected and no recognizer exists; the
\* transcription tab, which holds the controls modelled here (line 457),
\* has been opened (line 312)
InitRecognitionIdle ==
  /\ turns = <<>>
  /\ InitApp
  /\ provider = "assembly_ai"
  /\ activeTab = "transcription"
  /\ recognitionRef = 0
  /\ recognizers = <<>>
  /\ recWhy = "none"

\* the Sidebar, the clients and the AI session before the first operation
InitIdlePipe ==
  /\ InitRecognitionIdle
  /\ isListening = FALSE
  /\ audioSource = "system"
  /\ language = "auto"
  /\ assemblyClientRef = 0
  /\ clients = <<>>
  /\ sockets = <<>>
  /\ liveStatus = "disconnected"
  /\ isProcessing = FALSE
  /\ sendsSinceComplete = 0
  /\ lastSent = <<>>
  /\ deferred = <<>>

Init == InitStore /\ InitTopicIdle /\ InitIdlePipe

NextStore ==
  \/ \E t \in StoreTexts, f \in BOOLEAN, l \in Languages, s \in Speakers :
       AddEntry(t, f, l, s)
  \/ \E t \in StoreTexts : UpdateLastEntry(t)
  \/ ClearEntries

\* the transcript store under arbitrary calls of its three log operations
SpecStore == Init /\ [][NextStore]_vars

----------------------------------------------------------------------------
(* detectTopic applied to every bounded text *)

InitTopic ==
  /\ InitStore
  /\ InitIdlePipe
  /\ dtText \in Texts
  /\ dtDone = FALSE
  /\ dtResult = NoTopic

\* the call detectTopic(dtText) returns
DetectTopic ==
  /\ ~dtDone
  /\ dtDone' = TRUE
  /\ dtResult' = detectTopic(dtText)
  /\ UNCHANGED <<dtText, storeVars, pipeVars>>

NextTopic == DetectTopic

SpecTopic == InitTopic /\ [][NextTopic]_vars

----------------------------------------------------------------------------
(* AssemblyAIClient, src/unnamed/part_000:9-106 *)

NoText == <<>>

\* the state of a client after new AssemblyAIClient(); acquiring, source,
\* lang, acquired and stopped belong to the toggleRecording call that
\* constructed it: the call is waiting for getDisplayMedia / getUserMedia,
\* the audioSource and the language it read (its listeners close over
\* them), the media tracks it obtained and those of them on which it
\* called stop()
NewClient(src, lang) ==
  [ socket |-> 0, audioRecorder |-> 0, isConnected |-> FALSE,
    acquiring |-> FALSE, source |-> src, lang |-> lang, acquired |-> {},
    stopped |-> {} ]

\* the state of a socket after new WebSocket(url).  stream is the stream
\* argument of the connect call, which the open handler closes over:
\* element, display, device, or none when connect got no stream.  recorder
\* is the AudioRecorder that the open handler of this socket constructs
\* (none, running, failed: its start was rejected, stopped); out is
\* what was sent on the socket; leftIn, opened, heard and signals are
\* history: the readyState in which disconnect() dropped the socket,
\* whether it emitted open, whether it emitted a transcript, and the open
\* and error events its handlers emitted, in order
NewSocket(c, stream) ==
  [ client |-> c, stream |-> stream, readyState |-> "CONNECTING",
    recorder |-> "none", out |-> <<>>, leftIn |-> "", opened |-> FALSE,
    heard |-> FALSE, signals |-> <<>> ]

\* WebSocket.send on socket s: the frame goes out only while the socket
\* is OPEN (a CLOSING or CLOSED socket discards it)
socketSend(w, s, frame) ==
  IF w.sockets[s].readyState = "OPEN"
  THEN [w EXCEPT !.sockets[s].out = Append(@, frame)]
  ELSE w

\* WebSocket.close on socket s
socketClose(w, s) ==
  IF w.sockets[s].readyState \in {"CONNECTING", "OPEN"}
  THEN [w EXCEPT !.sockets[s].readyState = "CLOSING"]
  ELSE w

\* stopAudio, lines 87-92
stopAudio(w, c) ==
  LET r == w.clients[c].audioRecorder IN
  IF r = 0 THEN w
  ELSE [w EXCEPT !.sockets[r].recorder = "stopped",
                 !.clients[c].audioRecorder = 0]

\* AudioRecorder.start(stream): a recorder that is given a stream records
\* it; without one it requests the default microphone, and its start is
\* rejected when the request is not granted
audioRecorderStart(stream, granted) ==
  IF stream # "none" \/ granted THEN "running" ELSE "failed"

\* startAudio, lines 77-85, called by the open handler of socket s; a
\* rejected start leaves the recorder assigned and emits nothing
startAudio(w, c, s, granted) ==
  [w EXCEPT !.clients[c].audioRecorder = s,
            !.sockets[s].recorder =
               audioRecorderStart(w.sockets[s].stream, granted)]

\* connect, lines 21-75; throws: the WebSocket constructor throws
connect(w, c, stream, throws) ==
  IF w.clients[c].isConnected THEN w
  ELSE IF throws THEN [w EXCEPT !.error = TRUE]
  ELSE [w EXCEPT !.sockets = Append(@, NewSocket(c, stream)),
                 !.clients[c].socket = Len(w.sockets) + 1]

\* would connect construct a socket
ConnectOpensSocket(c, throws) == ~clients[c].isConnected /\ ~throws

disconnect_nullOnlyWhenOpen(w, c) ==
  LET s == w.clients[c].socket
      w1 == IF s = 0 \/ w.sockets[s].readyState # "OPEN" THEN w
            ELSE [w EXCEPT
                    !.sockets[s].out = Append(@, "terminate_session"),
                    !.sockets[s].readyState = "CLOSING",
                    !.sockets[s].leftIn = "OPEN",
                    !.clients[c].socket = 0]
  IN [stopAudio(w1, c) EXCEPT !.clients[c].isConnected = FALSE]

disconnect_closesFirst(w, c) ==
  LET s == w.clients[c].socket
      w0 == IF s = 0 \/ w.sockets[s].readyState # "OPEN" THEN w
            ELSE socketSend(socketClose(w, s), s, "terminate_session")
      w1 == IF s = 0 THEN w0
            ELSE [w0 EXCEPT
                    !.sockets[s].leftIn = w.sockets[s].readyState,
                    !.clients[c].socket = 0]
  IN [stopAudio(w1, c) EXCEPT !.clients[c].isConnected = FALSE]

\* disconnect, lines 94-105
disconnect(w, c) ==
  LET s == w.clients[c].socket
      w0 == IF s = 0 \/ w.sockets[s].readyState # "OPEN" THEN w
            ELSE socketClose(socketSend(w, s, "terminate_session"), s)
      w1 == IF s = 0 THEN w0
            ELSE [w0 EXCEPT
                    !.sockets[s].leftIn = w.sockets[s].readyState,
                    !.clients[c].socket = 0]
  IN [stopAudio(w1, c) EXCEPT !.clients[c].isConnected = FALSE]

\* an AudioRecorder emits data events while it is running and none once
\* stop() was called on it
audioRecorderEmits(recorder) == recorder = "running"

\* the data listener of startAudio, lines 79-83, of a recorder of client
\* c: the frame is sent on the socket that the client holds now
onAudioData(w, c) ==
  LET t == w.clients[c].socket IN
  IF t # 0 /\ w.sockets[t].readyState = "OPEN"
  THEN socketSend(w, t, "audio_data")
  ELSE w

\* socket.onopen, lines 42-46
onopen(w, s, granted) ==
  LET c == w.sockets[s].client IN
  startAudio([w EXCEPT !.clients[c].isConnected = TRUE,
                       !.sockets[s].opened = TRUE,
                       !.sockets[s].signals = Append(@, "open")], c, s,
             granted)

onerror_silent(w, s) == w

onerror_emitsOpen(w, s) ==
  [w EXCEPT !.error = TRUE,
            !.sockets[s].opened = TRUE,
            !.sockets[s].signals = Append(Append(@, "error"), "open")]

\* socket.onerror, lines 65-68
onerror(w, s) ==
  [w EXCEPT !.error = TRUE, !.sockets[s].signals = Append(@, "error")]

onclose_reconnects(w, s) ==
  LET c == w.sockets[s].client IN
  connect(stopAudio([w EXCEPT !.clients[c].isConnected = FALSE], c), c,
          w.sockets[s].stream, FALSE)

\* socket.onclose, lines 70-74
onclose(w, s) ==
  LET c == w.sockets[s].client IN
  stopAudio([w EXCEPT !.clients[c].isConnected = FALSE], c)

\* the clients and sockets as they are, no error event emitted yet
World == [clients |-> clients, sockets |-> sockets, error |-> FALSE]

\* message_type values of socket.onmessage, lines 48-63; Unparsable is a
\* frame on which JSON.parse throws
MessageTypes == { "FinalTranscript", "PartialTranscript", "SessionBegins",
                  "Unknown", "Unparsable" }
TranscriptTypes == { "FinalTranscript", "PartialTranscript" }

NoEvent == [event |-> "none"]

onmessage_sessionBeginsEmits(type, text, speaker) ==
  IF type \in {"FinalTranscript", "SessionBegins"}
  THEN [event |-> "transcript", text |-> text, isFinal |-> TRUE,
        speaker |-> speaker]
  ELSE IF type = "PartialTranscript"
  THEN [event |-> "transcript", text |-> text, isFinal |-> FALSE,
        speaker |-> speaker]
  ELSE NoEvent

\* socket.onmessage, lines 48-63: the event that the client emits for a
\* frame of this message_type; SessionBegins is logged, any other type is
\* skipped, and the exception of JSON.parse is caught and logged
onmessage(type, text, speaker) ==
  IF type = "FinalTranscript"
  THEN [event |-> "transcript", text |-> text, isFinal |-> TRUE,
        speaker |-> speaker]
  ELSE IF type = "PartialTranscript"
  THEN [event |-> "transcript", text |-> text, isFinal |-> FALSE,
        speaker |-> speaker]
  ELSE NoEvent

----------------------------------------------------------------------------
(* Sidebar, src/components/Sidebar.tsx *)

PipeTexts == { <<"A">>, <<"B">> }   \* transcript texts of the bridge runs
LifecycleTexts == { <<"A">> }       \* transcript texts of the lifecycle runs
AudioSources == { "system", "mic1" }
MessageSpeakers == { "" }          \* data.speaker || '': no diarization tag

\* lines 173-175; data.speaker is "A" when it is not empty
SpeakerLabel(source, speaker) ==
  IF source = "system" THEN "System"
  ELSE IF speaker = "" THEN "You"
  ELSE "Speaker A"

\* the store and the bridge are left as they are
NoTranscript ==
  UNCHANGED <<entries, lastOp, bridgeVars>>

\* the transcript listener registered by toggleRecording, lines 171-187,
\* run for a transcript event that socket s emitted on client c
OnTranscript(c, s, text, isFinal, speaker) ==
  LET willSend == isFinal /\ liveStatus = "connected" IN
  /\ \/ Len(entries) < MaxPipeLog
     \/ Len(entries) > 0 /\ ~entries[Len(entries)].isFinal
  /\ willSend => sendsSinceComplete < MaxInFlight
  /\ entries' = addEntry(entries, text, isFinal, clients[c].lang,
                         SpeakerLabel(clients[c].source, speaker))
  /\ lastOp' = [name |-> "addEntry",
                args |-> [text |-> text, isFinal |-> isFinal,
                          lang |-> clients[c].lang,
                          speaker |-> SpeakerLabel(clients[c].source,
                                                   speaker)],
                lenBefore |-> Len(entries), from |-> s]
  /\ isProcessing' = (isProcessing \/ willSend)
  /\ sendsSinceComplete' =
       IF willSend THEN sendsSinceComplete + 1 ELSE sendsSinceComplete
  /\ lastSent' = IF willSend THEN text ELSE lastSent
  /\ deferred' = IF isFinal /\ isProcessing THEN text ELSE deferred
  /\ UNCHANGED <<liveStatus, logVars, appVars>>

----------------------------------------------------------------------------
(* The local continuous recognizer, Sidebar.tsx lines 97-150 *)

Providers == { "assembly_ai", "web_speech" }
Tabs == { "settings", "transcription" }
RecognitionErrors == { "no-speech", "not-allowed", "network" }

\* new SpeechRecognition() with the handlers of lines 109-139 attached;
\* conn and lang are the values of `connected` and `language` that
\* onresult closes over.  state is
\* idle, running, stopping (stop() was called, the end event is pending)
\* or failed (an error event fired, the end event is pending).  History:
\* lastError is the latest error event since toggleRecording started the
\* recognizer, ended tells whether the end event after it (or, without an
\* error, the latest end event) restarted the recognizer
NewRecognition(conn, lang) ==
  [ state |-> "idle", onend |-> TRUE, connected |-> conn, lang |-> lang,
    lastError |-> "", ended |-> "" ]

\* recognition.start(): a recognizer that has not ended throws, and every
\* caller swallows the exception
recognitionStart(rec) ==
  IF rec.state = "idle" THEN [rec EXCEPT !.state = "running"] ELSE rec

\* recognition.stop()
recognitionStop(rec) ==
  IF rec.state = "running" THEN [rec EXCEPT !.state = "stopping"] ELSE rec

recognitionOnError_noSpeechFatal(kind, listening) ==
  IF kind \in {"no-speech", "not-allowed"} THEN FALSE ELSE listening

recognitionOnError_ignoresDenied(kind, listening) ==
  listening

\* recognition.onerror, lines 129-133: the value of isListening after it
recognitionOnError(kind, listening) ==
  IF kind = "no-speech" THEN listening
  ELSE IF kind = "not-allowed" THEN FALSE
  ELSE listening

recognitionOnEnd_alwaysRestart(rec, listening, prov) ==
  recognitionStart(rec)

\* recognition.onend, lines 135-139, for the recognizer rec that has ended
recognitionOnEnd(rec, listening, prov) ==
  IF listening /\ prov = "web_speech" THEN recognitionStart(rec) ELSE rec

\* the effect of lines 97-150 constructs a recognizer
EffectCreates(tab, prov) ==
  tab = "transcription" /\ prov = "web_speech"

\* the effect of lines 97-150, run because one of its dependencies
\* changed: the recognitionRef and the recognizers after it.  A recognizer
\* that is replaced is neither stopped nor detached.
RecognitionEffect(ref, recs, tab, prov, conn, lang) ==
  IF EffectCreates(tab, prov)
  THEN [ref |-> Len(recs) + 1,
        recs |-> Append(recs, NewRecognition(conn, lang))]
  ELSE IF ref # 0
       THEN [ref |-> 0,
             recs |-> [recs EXCEPT
                         ![ref] = recognitionStop([@ EXCEPT
                                                     !.onend = FALSE])]]
       ELSE [ref |-> ref, recs |-> recs]

\* the cleanup of the effect of lines 269-280, which closes over the
\* provider of the render that registered it
ProviderCleanup(old) ==
  LET detach == recognitionRef # 0 /\ old # "web_speech"
      drop == assemblyClientRef # 0 /\ old # "assembly_ai"
      w == IF drop THEN disconnect(World, assemblyClientRef) ELSE World
  IN [ recs |-> IF detach
                THEN [recognizers EXCEPT
                        ![recognitionRef] =
                          recognitionStop([@ EXCEPT !.onend = FALSE])]
                ELSE recognizers,
       clients |-> w.clients, sockets |-> w.sockets,
       aref |-> IF drop THEN 0 ELSE assemblyClientRef ]

\* the provider changes from the current one to p: the cleanup of lines
\* 269-280 runs with the old provider, then the effect of lines 97-150
\* with the new one
ProviderSwitch(p) ==
  LET cl == ProviderCleanup(provider)
      ef == RecognitionEffect(recognitionRef, cl.recs, activeTab, p,
                              liveStatus = "connected", language)
  IN /\ EffectCreates(activeTab, p) => Len(recognizers) < MaxRecognitions
     /\ clients' = cl.clients
     /\ sockets' = cl.sockets
     /\ assemblyClientRef' = cl.aref
     /\ recognitionRef' = ef.ref
     /\ recognizers' = ef.recs

\* a dependency of the effect of lines 97-150 other than the provider
\* changes: the tab becomes tab, `connected` becomes conn, `language`
\* becomes lang
RerunRecognitionEffect(tab, conn, lang) ==
  LET ef == RecognitionEffect(recognitionRef, recognizers, tab, provider,
                              conn, lang)
  IN /\ EffectCreates(tab, provider) => Len(recognizers) < MaxRecognitions
     /\ recognitionRef' = ef.ref
     /\ recognizers' = ef.recs

\* a tab button, lines 300-312
SetActiveTab(tab) ==
  /\ tab # activeTab
  /\ activeTab' = tab
  /\ RerunRecognitionEffect(tab, liveStatus = "connected", language)
  /\ UNCHANGED <<storeVars, topicVars, sidebarVars, clientVars, bridgeVars,
                 provider, recWhy>>

\* the language select, lines 494-503; language is a dependency of the
\* effect of lines 97-150
SetLanguage(lang) ==
  /\ activeTab = "transcription"
  /\ lang # language
  /\ language' = lang
  /\ RerunRecognitionEffect(activeTab, liveStatus = "connected", lang)
  /\ UNCHANGED <<storeVars, topicVars, isListening, audioSource,
                 assemblyClientRef, clientVars, bridgeVars, provider,
                 activeTab, recWhy>>

\* the provider select
SetProvider(p) ==
  /\ activeTab = "transcription"
  /\ p # provider
  /\ isListening' = FALSE
  /\ provider' = p
  /\ ProviderSwitch(p)
  /\ UNCHANGED <<storeVars, topicVars, audioSource, language, bridgeVars, activeTab,
                 recWhy>>

\* the results that one result event carries, from event.resultIndex on:
\* final results first, then interim results (the results list of the Web
\* Speech API is zero or more final results followed by zero or more
\* interim results)
ResultLists(texts) ==
  { rs \in UNION { [1..n -> [text : texts, isFinal : BOOLEAN]] :
                     n \in 1..MaxResults } :
      \A i \in 1..(Len(rs) - 1) : ~rs[i].isFinal => ~rs[i + 1].isFinal }

\* what a handler run has done so far: the log, the last store operation,
\* the texts handed to liveClient.send in order, the processing flag, the
\* latest final that arrived while processing, and interimTranscript
HandlerStart ==
  [ entries |-> entries, lastOp |-> lastOp, sent |-> <<>>,
    isProcessing |-> isProcessing, deferred |-> deferred, interim |-> <<>> ]

\* the record of an addEntry call in lastOp
AddEntryOp(es, text, isFinal, lang, speaker, from) ==
  [ name |-> "addEntry",
    args |-> [text |-> text, isFinal |-> isFinal, lang |-> lang,
              speaker |-> speaker],
    lenBefore |-> Len(es), from |-> from ]

\* lines 113-119: a final result is logged, then forwarded when the
\* recognizer was created with the session connected
onresultFinal(st, text, rec) ==
  [st EXCEPT
     !.entries = addEntry(@, text, TRUE, rec.lang, "You"),
     !.lastOp = AddEntryOp(st.entries, text, TRUE, rec.lang, "You", 0),
     !.sent = IF rec.connected THEN Append(@, text) ELSE @,
     !.isProcessing = @ \/ rec.connected,
     !.deferred = IF st.isProcessing THEN text ELSE @]

\* the loop of lines 111-123 from result i on
RECURSIVE onresultLoop(_, _, _, _)
onresultLoop(st, rs, i, rec) ==
  IF i > Len(rs) THEN st
  ELSE onresultLoop(IF rs[i].isFinal
                    THEN onresultFinal(st, rs[i].text, rec)
                    ELSE [st EXCEPT !.interim = @ \o rs[i].text],
                    rs, i + 1, rec)

onresult_interimFirst(st, rs, rec) ==
  LET interim == onresultLoop([st EXCEPT !.sent = <<>>], rs, 1,
                              [rec EXCEPT !.connected = FALSE]).interim
      logged == IF interim = <<>> THEN st
                ELSE [st EXCEPT
                        !.entries = addEntry(@, interim, FALSE, rec.lang,
                                             "You"),
                        !.lastOp = AddEntryOp(st.entries, interim, FALSE,
                                              rec.lang, "You", 0)]
  IN [onresultLoop(logged, rs, 1, rec) EXCEPT !.interim = interim]

onresult_sendsInterim(st, rs, rec) ==
  LET done == onresultLoop(st, rs, 1, rec) IN
  IF done.interim = <<>> THEN done
  ELSE [done EXCEPT
          !.entries = addEntry(@, done.interim, FALSE, rec.lang, "You"),
          !.lastOp = AddEntryOp(done.entries, done.interim, FALSE, rec.lang,
                                "You", 0),
          !.sent = IF rec.connected THEN Append(@, done.interim) ELSE @,
          !.isProcessing = @ \/ rec.connected]

\* recognition.onresult, lines 109-127, of the recognizer rec for the
\* results rs
onresult(st, rs, rec) ==
  LET done == onresultLoop(st, rs, 1, rec) IN
  IF done.interim = <<>> THEN done
  ELSE [done EXCEPT
          !.entries = addEntry(@, done.interim, FALSE, rec.lang, "You"),
          !.lastOp = AddEntryOp(done.entries, done.interim, FALSE, rec.lang,
                                "You", 0)]

\* a result event of recognizer r that carries the results rs
RecognitionResult(r, rs) ==
  /\ r \in 1..Len(recognizers)
  /\ recognizers[r].state \in {"running", "stopping"}
  /\ LET done == onresult(HandlerStart, rs, recognizers[r]) IN
     /\ Len(done.entries) <= MaxPipeLog
     /\ sendsSinceComplete + Len(done.sent) <= MaxInFlight
     /\ entries' = done.entries
     /\ lastOp' = done.lastOp
     /\ isProcessing' = done.isProcessing
     /\ sendsSinceComplete' = sendsSinceComplete + Len(done.sent)
     /\ lastSent' = IF done.sent = <<>> THEN lastSent
                    ELSE done.sent[Len(done.sent)]
     /\ deferred' = done.deferred
  /\ UNCHANGED <<topicVars, sidebarVars, clientVars, liveStatus, recVars,
                 logVars, appVars>>

\* an error event of recognizer r, handled by recognition.onerror; the
\* end event follows
RecognitionError(r, kind) ==
  /\ r \in 1..Len(recognizers)
  /\ recognizers[r].state = "running"
  /\ isListening' = recognitionOnError(kind, isListening)
  /\ recognizers' = [recognizers EXCEPT ![r].state = "failed",
                                        ![r].lastError = kind,
                                        ![r].ended = ""]
  /\ recWhy' = IF kind = "not-allowed" THEN "not-allowed" ELSE recWhy
  /\ UNCHANGED <<storeVars, topicVars, audioSource, language, assemblyClientRef,
                 clientVars, bridgeVars, provider, activeTab,
                 recognitionRef>>

\* the end event of recognizer r: on its own while it runs, or after
\* stop() or an error; recognition.onend runs when it is still attached
RecognitionEnd(r) ==
  /\ r \in 1..Len(recognizers)
  /\ recognizers[r].state \in {"running", "stopping", "failed"}
  /\ LET ended == [recognizers[r] EXCEPT !.state = "idle"]
         after == IF ended.onend
                  THEN recognitionOnEnd(ended, isListening, provider)
                  ELSE ended
     IN recognizers' =
          [recognizers EXCEPT
             ![r] = [after EXCEPT
                       !.ended = IF after.state = "running"
                                 THEN "restarted" ELSE "stayed"]]
  /\ UNCHANGED <<storeVars, topicVars, sidebarVars, clientVars, bridgeVars,
                 provider, activeTab, recognitionRef, recWhy>>

\* toggleRecording with isListening false, lines 154-253, up to its first
\* await.  direct: mediaMode is 'audio' and the audio element gives a
\* captured stream, so that connect is called without waiting
StartRecording(direct, throws) ==
  /\ activeTab = "transcription"
  /\ ~isListening
  /\ liveStatus' = IF liveStatus = "disconnected" THEN "connecting"
                   ELSE liveStatus
  /\ UNCHANGED <<entries, lastOp, topicVars, audioSource, language, isProcessing,
                 sendsSinceComplete, lastSent, deferred, provider,
                 activeTab, recognitionRef, logVars, appVars>>
  /\ IF provider = "web_speech"
     THEN /\ isListening' = TRUE
          /\ recognizers' =
               IF recognitionRef = 0 THEN recognizers
               ELSE [recognizers EXCEPT
                       ![recognitionRef] =
                         IF @.state = "idle"
                         THEN [recognitionStart(@) EXCEPT
                                 !.lastError = "", !.ended = ""]
                         ELSE recognitionStart(@)]
          /\ recWhy' = "start"
          /\ UNCHANGED <<assemblyClientRef, clients, sockets>>
     ELSE
         /\ UNCHANGED <<recognizers, recWhy>>
         /\ IF assemblyClientRef # 0
            THEN /\ isListening' = TRUE
                 /\ UNCHANGED <<assemblyClientRef, clients, sockets>>
            ELSE LET c == Len(clients) + 1
                     w0 == [World EXCEPT
                              !.clients = Append(@, NewClient(audioSource, language))]
                 IN /\ Len(clients) < MaxClients
                    /\ IF audioSource = "system" /\ direct
                       THEN LET w == connect([w0 EXCEPT
                                                !.clients[c].acquired =
                                                   {"audio"}],
                                             c, "element", throws) IN
                            /\ ~throws => Len(sockets) < MaxSockets
                            /\ clients' = w.clients
                            /\ sockets' = w.sockets
                            /\ isListening' = ~w.error
                            /\ assemblyClientRef' = c
                       ELSE /\ clients' = [w0.clients EXCEPT ![c].acquiring = TRUE]
                            /\ isListening' = TRUE
                            /\ UNCHANGED <<sockets, assemblyClientRef>>

AcquireOutcomes(src) ==
  IF src = "system" THEN { "audio", "noaudio", "denied" }
  ELSE { "stream", "failed" }

systemCapture_micFallback(outcome) ==
  IF outcome = "audio"
  THEN [ok |-> TRUE, stream |-> "display", acquired |-> {"audio", "video"},
        stopped |-> {"video"}]
  ELSE IF outcome = "noaudio"
  THEN [ok |-> TRUE, stream |-> "none", acquired |-> {"video"},
        stopped |-> {"video"}]
  ELSE [ok |-> TRUE, stream |-> "none", acquired |-> {}, stopped |-> {}]

\* lines 205-226: what toggleRecording makes of the outcome of
\* getDisplayMedia.  ok: it goes on to connect with stream; acquired: the
\* tracks of the display capture; stopped: those it stopped
systemCapture(outcome) ==
  IF outcome = "audio"
  THEN [ok |-> TRUE, stream |-> "display", acquired |-> {"audio", "video"},
        stopped |-> {"video"}]
  ELSE IF outcome = "noaudio"
  THEN [ok |-> FALSE, stream |-> "none", acquired |-> {"video"},
        stopped |-> {"video"}]
  ELSE [ok |-> FALSE, stream |-> "none", acquired |-> {}, stopped |-> {}]

\* lines 239-249: what toggleRecording makes of the outcome of
\* getUserMedia with the selected deviceId; on failure it connects without
\* a stream
deviceCapture(outcome) ==
  IF outcome = "stream"
  THEN [ok |-> TRUE, stream |-> "device", acquired |-> {"audio"},
        stopped |-> {}]
  ELSE [ok |-> TRUE, stream |-> "none", acquired |-> {}, stopped |-> {}]

\* toggleRecording resumed after getDisplayMedia (lines 208-230) or
\* getUserMedia (lines 239-251) settled for client c
AcquireDone(c, outcome, throws) ==
  /\ c \in 1..Len(clients)
  /\ clients[c].acquiring
  /\ outcome \in AcquireOutcomes(clients[c].source)
  /\ UNCHANGED <<entries, lastOp, topicVars, audioSource, language, bridgeVars,
                 recVars>>
  /\ LET cap == IF clients[c].source = "system" THEN systemCapture(outcome)
                ELSE deviceCapture(outcome)
         w0 == [World EXCEPT !.clients[c].acquiring = FALSE,
                             !.clients[c].acquired = cap.acquired,
                             !.clients[c].stopped = cap.stopped]
     IN
     IF ~cap.ok
     THEN /\ clients' = w0.clients
          /\ isListening' = FALSE
          /\ UNCHANGED <<sockets, assemblyClientRef>>
     ELSE LET w == connect(w0, c, cap.stream, throws) IN
          /\ ConnectOpensSocket(c, throws) => Len(sockets) < MaxSockets
          /\ clients' = w.clients
          /\ sockets' = w.sockets
          /\ isListening' = IF w.error THEN FALSE ELSE isListening
          /\ assemblyClientRef' = c

\* toggleRecording with isListening true, lines 254-266
StopRecording ==
  /\ activeTab = "transcription"
  /\ isListening
  /\ isListening' = FALSE
  /\ UNCHANGED <<entries, lastOp, topicVars, audioSource, language, bridgeVars,
                 provider, activeTab, recognitionRef>>
  /\ IF provider = "web_speech"
     THEN /\ recognizers' =
               IF recognitionRef = 0 THEN recognizers
               ELSE [recognizers EXCEPT
                       ![recognitionRef] = recognitionStop(@)]
          /\ recWhy' = "stop"
          /\ UNCHANGED <<clients, sockets, assemblyClientRef>>
     ELSE
         /\ UNCHANGED <<recognizers, recWhy>>
         /\ IF assemblyClientRef # 0
            THEN LET w == disconnect(World, assemblyClientRef) IN
                 /\ clients' = w.clients
                 /\ sockets' = w.sockets
                 /\ assemblyClientRef' = 0
            ELSE UNCHANGED <<clients, sockets, assemblyClientRef>>

\* the Audio Input select, lines 462-470
ChangeAudioSource(src) ==
  /\ activeTab = "transcription"
  /\ src # audioSource
  /\ isListening' = FALSE
  /\ audioSource' = src
  /\ provider' = "assembly_ai"
  /\ IF provider = "assembly_ai"
     THEN UNCHANGED <<assemblyClientRef, clientVars, recognitionRef,
                      recognizers>>
     ELSE ProviderSwitch("assembly_ai")
  /\ UNCHANGED <<entries, lastOp, topicVars, language, bridgeVars, activeTab,
                 recWhy>>

----------------------------------------------------------------------------
(* Events of the WebSocket of socket s *)

\* the connection is established: readyState OPEN, then onopen; granted:
\* the recorder's request for the default microphone, made only when the
\* connect call got no stream, is granted
SocketOpen(s, granted) ==
  /\ s \in 1..Len(sockets)
  /\ sockets[s].readyState = "CONNECTING"
  /\ sockets[s].stream # "none" => granted
  /\ LET w == onopen([World EXCEPT !.sockets[s].readyState = "OPEN"], s,
                     granted) IN
     /\ clients' = w.clients
     /\ sockets' = w.sockets
  /\ UNCHANGED <<entries, lastOp, topicVars, sidebarVars, bridgeVars,
                 recVars>>

\* a frame arrives: onmessage, lines 48-63.  The browser delivers message
\* events only while readyState is OPEN.
SocketMessage(s, type, text, speaker) ==
  /\ s \in 1..Len(sockets)
  /\ sockets[s].readyState = "OPEN"
  /\ LET e == onmessage(type, text, speaker) IN
     IF e.event = "transcript"
     THEN /\ OnTranscript(sockets[s].client, s, e.text, e.isFinal,
                          e.speaker)
          /\ sockets' = [sockets EXCEPT ![s].heard = TRUE]
             ELSE /\ NoTranscript
                  /\ UNCHANGED sockets
  /\ UNCHANGED <<topicVars, sidebarVars, clients, recVars>>

\* the connection fails: readyState CLOSED, then onerror, then onclose;
\* the error listener of toggleRecording (lines 188-191) clears isListening
SocketFail(s) ==
  /\ s \in 1..Len(sockets)
  /\ sockets[s].readyState \in {"CONNECTING", "OPEN"}
  /\ LET w == onclose(onerror([World EXCEPT
                                 !.sockets[s].readyState = "CLOSED"], s), s)
     IN /\ clients' = w.clients
        /\ sockets' = w.sockets
        /\ isListening' = IF w.error THEN FALSE ELSE isListening
  /\ UNCHANGED <<entries, lastOp, topicVars, audioSource, language, assemblyClientRef,
                 bridgeVars, recVars>>

\* the connection is closed, by the server or after close(): readyState
\* CLOSED, then onclose
SocketClose(s) ==
  /\ s \in 1..Len(sockets)
  /\ sockets[s].readyState \in {"OPEN", "CLOSING"}
  /\ LET w == onclose([World EXCEPT !.sockets[s].readyState = "CLOSED"], s)
     IN /\ clients' = w.clients
        /\ sockets' = w.sockets
  /\ UNCHANGED <<entries, lastOp, topicVars, sidebarVars, bridgeVars,
                 recVars>>

\* the audio_data frames sent on socket s
AudioFrames(s) ==
  Cardinality({ i \in 1..Len(sockets[s].out) :
                  sockets[s].out[i] = "audio_data" })

\* the recorder that the open handler of socket s started emits a data
\* event
AudioData(s) ==
  /\ s \in 1..Len(sockets)
  /\ audioRecorderEmits(sockets[s].recorder)
  /\ LET t == clients[sockets[s].client].socket IN
       t # 0 => AudioFrames(t) < MaxFrames
  /\ LET w == onAudioData(World, sockets[s].client) IN
     /\ clients' = w.clients
     /\ sockets' = w.sockets
  /\ UNCHANGED <<entries, lastOp, topicVars, sidebarVars, bridgeVars,
                 recVars>>

----------------------------------------------------------------------------
(* The AI session *)

\* the session reports connected
LiveOpen ==
  /\ liveStatus = "connecting"
  /\ liveStatus' = "connected"
  /\ RerunRecognitionEffect(activeTab, TRUE, language)
  /\ UNCHANGED <<storeVars, topicVars, sidebarVars, clientVars, isProcessing,
                 sendsSinceComplete, lastSent, deferred, provider,
                 activeTab, recWhy, logVars, appVars>>

\* the session is closed
LiveClose ==
  /\ liveStatus # "disconnected"
  /\ liveStatus' = "disconnected"
  /\ IF liveStatus = "connected"
     THEN RerunRecognitionEffect(activeTab, FALSE, language)
     ELSE UNCHANGED <<recognitionRef, recognizers>>
  /\ UNCHANGED <<storeVars, topicVars, sidebarVars, clientVars, isProcessing,
                 sendsSinceComplete, lastSent, deferred, provider,
                 activeTab, recWhy, logVars, appVars>>

\* the turncomplete event; onTurnComplete of StreamingConsole.tsx:136-141
\* only re-arms the caption timer, it neither sends nor calls setProcessing
TurnComplete ==
  /\ liveStatus = "connected"
  /\ sendsSinceComplete > 0
  /\ sendsSinceComplete' = 0
  /\ deferred' = NoText
  /\ UNCHANGED <<storeVars, topicVars, sidebarVars, clientVars, liveStatus,
                 isProcessing, lastSent, recVars, logVars, appVars>>

----------------------------------------------------------------------------
(* Specifications of the pipeline *)

InitPipeline == Init

SocketEvents ==
  \E s \in 1..MaxSockets :
    \/ \E granted \in BOOLEAN : SocketOpen(s, granted)
    \/ \E type \in MessageTypes, text \in LifecycleTexts,
          speaker \in MessageSpeakers :
         SocketMessage(s, type, text, speaker)
    \/ SocketFail(s)
    \/ SocketClose(s)

SessionEvents == LiveOpen \/ LiveClose \/ TurnComplete

NextPipeline ==
  \/ \E direct \in BOOLEAN, throws \in BOOLEAN :
       StartRecording(direct, throws)
  \/ \E c \in 1..MaxClients, throws \in BOOLEAN,
        outcome \in {"audio", "noaudio", "denied", "stream", "failed"} :
       AcquireDone(c, outcome, throws)
  \/ StopRecording
  \/ \E src \in AudioSources : ChangeAudioSource(src)
  \/ ClearEntries
  \/ SocketEvents

\* the Sidebar driving AssemblyAI clients and their sockets; the AI session
\* is still connecting in these runs (SpecBridge has its events)
SpecPipeline == InitPipeline /\ [][NextPipeline]_vars

NextCapture ==
  \/ \E direct \in BOOLEAN, throws \in BOOLEAN :
       StartRecording(direct, throws)
  \/ \E c \in 1..MaxClients, throws \in BOOLEAN,
        outcome \in {"audio", "noaudio", "denied", "stream", "failed"} :
       AcquireDone(c, outcome, throws)
  \/ StopRecording
  \/ \E src \in AudioSources : ChangeAudioSource(src)
  \/ \E s \in 1..MaxSockets, granted \in BOOLEAN : SocketOpen(s, granted)

\* the Sidebar acquiring audio for its provider sessions, up to the
\* moment their sockets open and their recorders start
SpecCapture == InitPipeline /\ [][NextCapture]_vars

\* a caller of the client's public methods: client.connect(...)
CallConnect(c, throws) ==
  /\ c \in 1..Len(clients)
  /\ ConnectOpensSocket(c, throws) => Len(sockets) < MaxSockets
  /\ LET w == connect(World, c, "device", throws) IN
     /\ clients' = w.clients
     /\ sockets' = w.sockets
     /\ isListening' = IF w.error THEN FALSE ELSE isListening
  /\ UNCHANGED <<entries, lastOp, topicVars, audioSource, language, assemblyClientRef,
                 bridgeVars, recVars>>

\* a caller of the client's public methods: client.disconnect()
CallDisconnect(c) ==
  /\ c \in 1..Len(clients)
  /\ LET w == disconnect(World, c) IN
     /\ clients' = w.clients
     /\ sockets' = w.sockets
  /\ UNCHANGED <<entries, lastOp, topicVars, sidebarVars, bridgeVars,
                 recVars>>

\* one client with the listeners of toggleRecording registered, as
\* toggleRecording leaves it when getUserMedia has settled; the AI session
\* is still connecting in these runs
InitClient ==
  /\ InitStore
  /\ InitTopicIdle
  /\ InitRecognitionIdle
  /\ isListening = TRUE
  /\ audioSource = "mic1"
  /\ language = "auto"
  /\ assemblyClientRef = 1
  /\ clients = <<[NewClient("mic1", "auto") EXCEPT !.acquired = {"audio"}]>>
  /\ sockets = <<>>
  /\ liveStatus = "connecting"
  /\ isProcessing = FALSE
  /\ sendsSinceComplete = 0
  /\ lastSent = NoText
  /\ deferred = NoText

NextClient ==
  \/ \E throws \in BOOLEAN : CallConnect(1, throws)
  \/ CallDisconnect(1)
  \/ SocketEvents

\* one AssemblyAIClient under arbitrary calls of connect and disconnect
SpecClient == InitClient /\ [][NextClient]_vars

NextAudio ==
  \/ \E throws \in BOOLEAN : CallConnect(1, throws)
  \/ CallDisconnect(1)
  \/ \E s \in 1..MaxSockets :
       \/ \E granted \in BOOLEAN : SocketOpen(s, granted)
       \/ AudioData(s)
       \/ SocketFail(s)
       \/ SocketClose(s)

\* one AssemblyAIClient relaying audio to its sockets under arbitrary
\* calls of connect and disconnect
SpecAudio == InitClient /\ [][NextAudio]_vars

RecognitionEvents ==
  \E r \in 1..MaxRecognitions :
    \/ \E rs \in ResultLists(LifecycleTexts) : RecognitionResult(r, rs)
    \/ \E kind \in RecognitionErrors : RecognitionError(r, kind)
    \/ RecognitionEnd(r)

\* the user presses the connect button of the control tray
LiveConnect ==
  /\ liveStatus = "disconnected"
  /\ liveStatus' = "connecting"
  /\ UNCHANGED <<storeVars, topicVars, sidebarVars, clientVars, isProcessing,
                 sendsSinceComplete, lastSent, deferred, recVars, logVars, appVars>>

NextSwitch ==
  \/ \E tab \in Tabs : SetActiveTab(tab)
  \/ \E lang \in Languages : SetLanguage(lang)
  \/ \E p \in Providers : SetProvider(p)
  \/ \E src \in AudioSources : ChangeAudioSource(src)
  \/ LiveConnect
  \/ LiveOpen
  \/ LiveClose

\* the user connecting the AI session and switching tabs, providers and
\* audio sources before recording
SpecSwitch == Init /\ [][NextSwitch]_vars

\* the state after the AI session was connected (LiveConnect, LiveOpen)
\* and the local provider was selected (SetProvider): the effect of lines
\* 97-150 has constructed the first recognizer
RecognizerStart ==
  /\ turns = <<>>
  /\ InitApp
  /\ provider = "web_speech"
  /\ activeTab = "transcription"
  /\ recognitionRef = 1
  /\ recognizers = <<NewRecognition(TRUE, "auto")>>
  /\ recWhy = "none"
  /\ isListening = FALSE
  /\ audioSource = "system"
  /\ language = "auto"
  /\ assemblyClientRef = 0
  /\ clients = <<>>
  /\ sockets = <<>>
  /\ liveStatus = "connected"
  /\ isProcessing = FALSE
  /\ sendsSinceComplete = 0
  /\ lastSent = NoText
  /\ deferred = NoText

InitRecognizer == InitStore /\ InitTopicIdle /\ RecognizerStart

\* violated under SpecSwitch: the start state of SpecRecognizer is a state
\* the Sidebar reaches
RecognizerStartReached == ~(RecognizerStart /\ entries = <<>>)

NextRecognizer ==
  \/ \E tab \in Tabs : SetActiveTab(tab)
  \/ \E direct \in BOOLEAN, throws \in BOOLEAN :
       StartRecording(direct, throws)
  \/ StopRecording
  \/ RecognitionEvents
  \/ LiveConnect
  \/ SessionEvents

\* the Sidebar driving the local recognizer, with the local provider
\* selected, while the user switches tabs and the AI session connects,
\* answers and disconnects
SpecRecognizer == InitRecognizer /\ [][NextRecognizer]_vars

\* the state after toggleRecording started client 1 on captured system
\* audio (StartRecording with direct) and its socket opened (SocketOpen)
BridgeStart ==
  /\ InitRecognitionIdle
  /\ isListening = TRUE
  /\ audioSource = "system"
  /\ language = "auto"
  /\ assemblyClientRef = 1
  /\ clients = <<[NewClient("system", "auto") EXCEPT
                    !.socket = 1, !.audioRecorder = 1, !.isConnected = TRUE,
                    !.acquired = {"audio"}]>>
  /\ sockets = <<[NewSocket(1, "element") EXCEPT
                    !.readyState = "OPEN", !.recorder = "running",
                    !.opened = TRUE, !.signals = <<"open">>]>>
  /\ liveStatus = "connecting"
  /\ isProcessing = FALSE
  /\ sendsSinceComplete = 0
  /\ lastSent = NoText
  /\ deferred = NoText

InitBridge == InitStore /\ InitTopicIdle /\ BridgeStart

\* violated under SpecPipeline: the start state of SpecBridge is a state
\* the pipeline reaches
BridgeStartReached == ~(BridgeStart /\ entries = <<>>)

NextBridge ==
  \/ \E type \in MessageTypes, text \in PipeTexts,
        speaker \in MessageSpeakers :
       SocketMessage(1, type, text, speaker)
  \/ ClearEntries
  \/ \E lang \in Languages : SetLanguage(lang)
  \/ LiveConnect
  \/ SessionEvents

\* an open provider session delivering transcripts to the bridge while the
\* AI session connects, answers and disconnects and the user clears the
\* log and changes the language
SpecBridge == InitBridge /\ [][NextBridge]_vars

NextOrder ==
  \/ \E direct \in BOOLEAN, throws \in BOOLEAN :
       StartRecording(direct, throws)
  \/ StopRecording
  \/ \E r \in 1..MaxRecognitions :
       \/ \E rs \in ResultLists(PipeTexts) : RecognitionResult(r, rs)
       \/ RecognitionEnd(r)
  \/ ClearEntries

\* the local recognizer, as the only provider, delivering result events
\* of several results with different texts
SpecOrder == InitRecognizer /\ [][NextOrder]_vars

NextForward ==
  \/ \E type \in MessageTypes, text \in PipeTexts,
        speaker \in MessageSpeakers :
       SocketMessage(1, type, text, speaker)
  \/ \E p \in Providers : SetProvider(p)
  \/ \E direct \in BOOLEAN, throws \in BOOLEAN :
       StartRecording(direct, throws)
  \/ \E r \in 1..MaxRecognitions, rs \in ResultLists(LifecycleTexts) :
       RecognitionResult(r, rs)
  \/ LiveConnect
  \/ SessionEvents

\* both transcript handlers feeding the log and the AI session: an open
\* provider session delivers transcripts, the user selects the local
\* provider and starts it, and the AI session connects, answers and
\* disconnects
SpecForward == InitBridge /\ [][NextForward]_vars

----------------------------------------------------------------------------
(* The conversation-turn log, src/lib/state.ts:208-231 *)

TurnRoles == { "user", "agent" }

\* addTurn, lines 215-218
addTurn(ts, turn) == Append(ts, turn)

updateLastTurn_first(ts, update) ==
  IF Len(ts) = 0 THEN ts
  ELSE [ts EXCEPT ![1] =
          [f \in DOMAIN @ |->
             IF f \in DOMAIN update THEN update[f] ELSE @[f]]]

\* updateLastTurn, lines 219-229; update is a partial turn
updateLastTurn(ts, update) ==
  IF Len(ts) = 0 THEN ts
  ELSE [ts EXCEPT ![Len(ts)] =
          [f \in DOMAIN @ |->
             IF f \in DOMAIN update THEN update[f] ELSE @[f]]]

\* clearTurns, line 230
clearTurns(ts) == <<>>

AddTurn(role, text, isFinal) ==
  /\ Len(turns) < MaxTurns
  /\ turns' = addTurn(turns, [role |-> role, text |-> text,
                              isFinal |-> isFinal])
  /\ UNCHANGED <<storeVars, topicVars, sidebarVars, clientVars, sessionVars,
                 recVars, appVars>>

UpdateLastTurn(update) ==
  /\ turns' = updateLastTurn(turns, update)
  /\ UNCHANGED <<storeVars, topicVars, sidebarVars, clientVars, sessionVars,
                 recVars, appVars>>

ClearTurns ==
  /\ turns' = clearTurns(turns)
  /\ UNCHANGED <<storeVars, topicVars, sidebarVars, clientVars, sessionVars,
                 recVars, appVars>>

NextFailure ==
  \/ \E type \in MessageTypes, text \in LifecycleTexts,
        speaker \in MessageSpeakers :
       SocketMessage(1, type, text, speaker)
  \/ SocketFail(1)
  \/ \E throws \in BOOLEAN : CallConnect(1, throws)
  \/ \E role \in TurnRoles, isFinal \in BOOLEAN :
       AddTurn(role, <<"A">>, isFinal)
  \/ \E update \in { [isFinal |-> TRUE], [text |-> <<"B">>] } :
       UpdateLastTurn(update)
  \/ ClearTurns

\* an open provider session that delivers transcripts and fails, while the
\* turn log is written; the caller connects the client again
SpecFailure == InitBridge /\ [][NextFailure]_vars

----------------------------------------------------------------------------
(* Claims about the transcript store, checked under SpecStore *)

\* C1: the transcript log never holds two consecutive non-final entries,
\* and a non-final entry is always the last entry of the log.
C1_NonFinalOnlyAtTail ==
  /\ \A i \in 1..Len(entries) :
        ~entries[i].isFinal => i = Len(entries)
  /\ \A i \in 1..(Len(entries) - 1) :
        entries[i].isFinal \/ entries[i + 1].isFinal

\* a non-final entry replaced a non-final tail behind an earlier entry
C1_Witness ==
  /\ lastOp.name = "addEntry"
  /\ lastOp.lenBefore = Len(entries)
  /\ Len(entries) >= 2
  /\ ~entries[Len(entries)].isFinal

\* C2: addEntry follows the merge policy: over a non-final tail the new
\* entry replaces the tail, the length and every earlier entry are kept;
\* over an empty log or a final tail the new entry is appended, the length
\* grows by one and every existing entry is kept.
C2_MergePolicy ==
  [][ lastOp'.name = "addEntry" =>
        LET n == Len(entries)
            m == Len(entries')
            a == lastOp'.args
        IN /\ IF n > 0 /\ ~entries[n].isFinal
              THEN /\ m = n
                   /\ \A i \in 1..(n - 1) : entries'[i] = entries[i]
              ELSE /\ m = n + 1
                   /\ \A i \in 1..n : entries'[i] = entries[i]
           /\ entries'[m].text = a.text
           /\ entries'[m].isFinal = a.isFinal
           /\ entries'[m].language = a.lang
           /\ entries'[m].speaker = a.speaker ]_vars

\* a final entry replaced a non-final tail behind an earlier entry
C2_Witness ==
  /\ lastOp.name = "addEntry"
  /\ lastOp.lenBefore = Len(entries)
  /\ Len(entries) = 2
  /\ entries[2].isFinal
  /\ lastOp.args.speaker = "You"

\* C3: under addEntry and updateLastEntry an entry that is final keeps its
\* place, its text, its isFinal flag and its topic.
C3_FinalImmutable ==
  [][ lastOp'.name \in {"addEntry", "updateLastEntry"} =>
        \A i \in 1..Len(entries) :
          entries[i].isFinal =>
            /\ i <= Len(entries')
            /\ entries'[i].text = entries[i].text
            /\ entries'[i].isFinal
            /\ entries'[i].topic = entries[i].topic ]_vars

\* C4: every entry with isFinal = false has no topic.
C4_NonFinalHasNoTopic ==
  \A i \in 1..Len(entries) :
    ~entries[i].isFinal => entries[i].topic = NoTopic

----------------------------------------------------------------------------
(* Claims about detectTopic, checked under SpecTopic *)

\* the character c of a text equals the keyword character k up to case
SameLetter(c, k) ==
  c = k \/ \E n \in 1..Len(Upper) : Upper[n] = c /\ Lower[n] = k

\* the keyword kw occurs somewhere in the text t, case ignored
Occurs(t, kw) ==
  \E i \in 1..Len(t) :
    /\ i + Len(kw) - 1 <= Len(t)
    /\ \A j \in 1..Len(kw) : SameLetter(t[i + j - 1], kw[j])

RuleOrder == <<"Coordination", "Development", "Business", "Casual">>
RuleKeywords == <<KwCoordination, KwDevelopment, KwBusiness, KwCasual>>

\* the rules with a keyword that occurs in t
Hits(t) == { n \in 1..Len(RuleOrder) : \E kw \in RuleKeywords[n] : Occurs(t, kw) }

\* C5: the topic is the category of the first rule, in the order
\* Coordination, Development, Business, Casual, one of whose keywords occurs
\* in the text as a substring, case ignored; no topic when none occurs.
C5_FirstMatchWins ==
  dtDone =>
    IF Hits(dtText) = {} THEN dtResult = NoTopic
    ELSE \E n \in Hits(dtText) :
           /\ \A k \in Hits(dtText) : n <= k
           /\ dtResult = RuleOrder[n]

\* a text with an upper-case Development keyword before a Coordination
\* keyword was classified
C5_Witness ==
  /\ dtDone
  /\ dtText = <<"B","U","G","Z","o","o","m">>
  /\ dtResult = "Coordination"

----------------------------------------------------------------------------
(* Claims about the bridge to the AI session, checked under SpecBridge *)

\* C6: at most one forwarded utterance is in flight: between a send and the
\* next turncomplete there is no second send.
C6_OneInFlight == sendsSinceComplete <= 1

\* C7: when final transcripts arrived while the session was processing,
\* the turncomplete that follows issues exactly one send, and it carries
\* the latest of them.
C7_LatestPendingSentOnComplete ==
  [][ (deferred # NoText /\ deferred' = NoText) =>
         (sendsSinceComplete' = 1 /\ lastSent' = deferred) ]_vars

----------------------------------------------------------------------------
(* Claims about the provider session *)

\* disconnect() dropped socket s and a socket constructed later has opened
Superseded(s) ==
  /\ sockets[s].leftIn # ""
  /\ \E t \in (s + 1)..Len(sockets) : sockets[t].opened

\* C8: once a later session has opened, no transcript event of a session
\* that disconnect() superseded is ingested into the transcript log.
\* Checked under SpecPipeline.
C8_NoStaleTranscript ==
  [][ \A s \in 1..Len(sockets) :
        ( /\ lastOp'.name = "addEntry"
          /\ lastOp'.from = s
          /\ <<entries, lastOp>>' # <<entries, lastOp>> )
        => ~Superseded(s) ]_vars

\* C9: a socket that disconnect() dropped while it was CONNECTING emits no
\* open event, does not start an audio recorder and emits no transcript.
\* Checked under SpecClient.
C9_DisconnectWhileConnectingSuppresses ==
  \A s \in 1..Len(sockets) :
    sockets[s].leftIn = "CONNECTING" =>
      /\ ~sockets[s].opened
      /\ sockets[s].recorder = "none"
      /\ ~sockets[s].heard

\* client c has a socket that is connecting or open
Busy(c) ==
  /\ clients[c].socket # 0
  /\ sockets[clients[c].socket].readyState \in {"CONNECTING", "OPEN"}

\* C10: no socket is constructed for a client that is Connecting or Open,
\* and no step other than a disconnect changes its socket reference.
\* Checked under SpecClient.
C10_ConnectNotReentrant ==
  [][ \A c \in 1..Len(clients) :
        Busy(c) =>
          /\ \A s \in (Len(sockets) + 1)..Len(sockets') :
               sockets'[s].client # c
          /\ clients'[c].socket \in {clients[c].socket, 0} ]_vars

----------------------------------------------------------------------------
(* Claims about the remote streaming client, checked under SpecClient *)

\* C11 as stated: no session emits both an open and an error event.
C11_OpenXorError ==
  \A s \in 1..Len(sockets) : Len(sockets[s].signals) <= 1

\* C11 as amended: a session emits open at most once and error at most
\* once, and never emits open after it emitted error; an error event of a
\* session that has opened (its open socket failed) does occur.
C11_NoOpenAfterError ==
  \A s \in 1..Len(sockets) :
    sockets[s].signals \in
      { <<>>, <<"open">>, <<"error">>, <<"open", "error">> }

\* one session failed while connecting, another failed after it had opened
C11_Witness ==
  \E s, t \in 1..Len(sockets) :
    /\ sockets[s].signals = <<"error">>
    /\ sockets[t].signals = <<"open", "error">>

\* C12: disconnect() leaves the client without socket reference, without
\* audio recorder and not connected, emits no error event, and a second
\* disconnect() right after it changes nothing and sends nothing.
C12_DisconnectIdempotent ==
  [][ \A c \in 1..Len(clients) :
        CallDisconnect(c) =>
          LET w == [clients |-> clients', sockets |-> sockets',
                    error |-> FALSE]
          IN /\ clients'[c].socket = 0
             /\ clients'[c].audioRecorder = 0
             /\ ~clients'[c].isConnected
             /\ isListening' = isListening
             /\ disconnect(w, c) = w ]_vars

\* disconnect() ran on an open session (terminate_session sent, recorder
\* stopped) and on a session that was still connecting
C12_Witness ==
  /\ clients[1].socket = 0
  /\ \E s, t \in 1..Len(sockets) :
       /\ sockets[s].leftIn = "OPEN"
       /\ sockets[s].out = <<"terminate_session">>
       /\ sockets[s].recorder = "stopped"
       /\ sockets[t].leftIn = "CONNECTING"

----------------------------------------------------------------------------
(* Claims about the local recognizer, checked under SpecRecognizer *)

\* C13: an end event of a running recognizer while the latest request was
\* start restarts the recognizer, and no end event restarts a recognizer
\* while the latest request was stop.
C13_RestartUnlessStopped ==
  [][ \A r \in 1..Len(recognizers) :
        RecognitionEnd(r) =>
          /\ (recWhy = "start" /\ recognizers[r].state = "running")
               => recognizers'[r].state = "running"
          /\ recWhy = "stop" => recognizers'[r].state = "idle" ]_vars

\* recording is requested and a recognizer that ended on its own, without
\* an error, was restarted by its end handler
C13_Witness ==
  /\ recWhy = "start"
  /\ isListening
  /\ \E r \in 1..Len(recognizers) :
       /\ recognizers[r].state = "running"
       /\ recognizers[r].lastError = ""
       /\ recognizers[r].ended = "restarted"

\* C14: a not-allowed error clears the listening flag, and from then until
\* the next start request no end event restarts a recognizer.
C14_NotAllowedFatal ==
  [][ \A r \in 1..Len(recognizers) :
        /\ RecognitionError(r, "not-allowed") => ~isListening'
        /\ (RecognitionEnd(r) /\ recWhy = "not-allowed")
             => recognizers'[r].state = "idle" ]_vars

\* a recognizer got not-allowed, its end event followed and it stayed idle
C14_Witness ==
  /\ recWhy = "not-allowed"
  /\ ~isListening
  /\ \E r \in 1..Len(recognizers) :
       /\ recognizers[r].state = "idle"
       /\ recognizers[r].lastError = "not-allowed"
       /\ recognizers[r].ended = "stayed"

\* C15: a no-speech error changes neither the listening flag, the
\* transcript log nor the processing flag, and the end event that follows
\* it restarts the recognizer when recording is still requested, the local
\* provider is selected and the end handler is attached.
C15_NoSpeechIgnored ==
  [][ \A r \in 1..Len(recognizers) :
        /\ RecognitionError(r, "no-speech")
             => /\ isListening' = isListening
                /\ entries' = entries
                /\ isProcessing' = isProcessing
        /\ ( /\ RecognitionEnd(r)
             /\ recognizers[r].state = "failed"
             /\ recognizers[r].lastError = "no-speech"
             /\ recognizers[r].onend
             /\ isListening
             /\ provider = "web_speech" )
             => recognizers'[r].state = "running" ]_vars

\* with a transcript in the log and the processing flag set, a recognizer
\* got no-speech and was restarted by the end event that followed
C15_Witness ==
  /\ isListening
  /\ isProcessing
  /\ entries # <<>>
  /\ \E r \in 1..Len(recognizers) :
       /\ recognizers[r].state = "running"
       /\ recognizers[r].lastError = "no-speech"
       /\ recognizers[r].ended = "restarted"

----------------------------------------------------------------------------
(* Claims about the Sidebar driving provider sessions, checked under
   SpecPipeline *)

\* a provider session that is connecting or open: its socket can still
\* deliver transcript events
Active(s) == sockets[s].readyState \in {"CONNECTING", "OPEN"}

\* C16: at no time are two provider sessions active together; a session
\* is connected only when every older session has reached its terminal
\* state.
C16_SingleActiveSession ==
  Cardinality({ s \in 1..Len(sockets) : Active(s) }) <= 1

----------------------------------------------------------------------------
(* Claims about audio acquisition, checked under SpecCapture *)

\* every session of a client started on system audio was connected with
\* the captured element stream or the display audio stream
SystemSessionsOnSystemAudio ==
  \A s \in 1..Len(sockets) :
    clients[sockets[s].client].source = "system"
      => sockets[s].stream \in {"element", "display"}

C18_FallbackFailureStopsListening ==
  [][ \A s \in 1..Len(sockets) :
        (SocketOpen(s, FALSE) /\ sockets[s].stream = "none")
          => ~isListening' ]_vars

----------------------------------------------------------------------------
(* Claims about provider errors *)

\* the sockets on which an error event has been emitted
Errored == { s \in 1..Len(sockets) :
               \E i \in 1..Len(sockets[s].signals) :
                 sockets[s].signals[i] = "error" }

\* C19: a step in which the client emits an error event (a socket fails,
\* or the WebSocket constructor throws) clears the listening flag and
\* leaves the transcript log and the conversation-turn log as they were.
C19_ErrorStopsListeningOnly ==
  [][ (\/ \E s \in 1..Len(sockets) : SocketFail(s)
       \/ \E c \in 1..Len(clients) : CallConnect(c, TRUE))
        => /\ ~isListening'
           /\ entries' = entries
           /\ turns' = turns ]_vars

\* a session failed while both logs held something: listening is off and
\* the logs are still there
C19_Witness ==
  /\ Errored # {}
  /\ ~isListening
  /\ entries # <<>>
  /\ turns # <<>>

\* listening was stopped by an error of the session that the Sidebar
\* still holds
ErrorStopped ==
  /\ ~isListening
  /\ assemblyClientRef # 0
  /\ clients[assemblyClientRef].socket \in Errored

\* C20: when a start request that follows a socket error sets the
\* listening flag, a provider session is being acquired, connecting or
\* open afterwards.
C20_RestartAfterError ==
  [][ ( /\ ErrorStopped
        /\ \E direct \in BOOLEAN, throws \in BOOLEAN :
             StartRecording(direct, throws)
        /\ isListening' )
        => \/ \E s \in 1..Len(sockets') :
                sockets'[s].readyState \in {"CONNECTING", "OPEN"}
           \/ \E c \in 1..Len(clients') : clients'[c].acquiring ]_vars

----------------------------------------------------------------------------
(* Claims about clearing the transcript log, checked under SpecBridge *)

\* C21: clearEntries empties the transcript log whatever it held and
\* changes nothing else: the listening flag, the provider, the audio
\* source, the language, the client reference, the clients and their
\* sockets are as before; the first addEntry after it leaves a log of
\* exactly the entry it was called with.
C21_ClearResetsLogOnly ==
  [][ /\ ( /\ lastOp'.name = "clearEntries"
           /\ <<entries, lastOp>>' # <<entries, lastOp>> )
           => /\ entries' = <<>>
              /\ isListening' = isListening
              /\ provider' = provider
              /\ audioSource' = audioSource
              /\ language' = language
              /\ assemblyClientRef' = assemblyClientRef
              /\ clients' = clients
              /\ sockets' = sockets
              /\ isProcessing' = isProcessing
      /\ (lastOp.name = "clearEntries" /\ lastOp'.name = "addEntry")
           => entries' = << NewEntry(lastOp'.args.text, lastOp'.args.isFinal,
                                     lastOp'.args.lang,
                                     lastOp'.args.speaker) >> ]_vars

\* a log of two entries was cleared while listening on an open session
\* with a forwarded utterance outstanding and a language selected
C21_Witness ==
  /\ lastOp.name = "clearEntries"
  /\ lastOp.lenBefore = 2
  /\ entries = <<>>
  /\ isListening
  /\ isProcessing
  /\ language = "en-US"
  /\ sockets[1].readyState = "OPEN"

----------------------------------------------------------------------------
(* Claims about forwarding to the AI session *)

\* the entries that an ingesting step keeps: all but a non-final tail
Kept ==
  IF Len(entries) > 0 /\ ~entries[Len(entries)].isFinal
  THEN Len(entries) - 1 ELSE Len(entries)

\* the final entries that the step has put into the log, as positions
NewFinals ==
  { k \in (Kept + 1)..Len(entries') : entries'[k].isFinal }

\* the step is a handler run for a transcript event that carries a final
\* transcript with this text: a message of the remote client or a result
\* event of a local recognizer
FinalArrives(text) ==
  \/ \E s \in 1..Len(sockets), speaker \in MessageSpeakers :
        SocketMessage(s, "FinalTranscript", text, speaker)
  \/ \E r \in 1..Len(recognizers), rs \in ResultLists(PipeTexts) :
        /\ \E i \in 1..Len(rs) : rs[i].isFinal /\ rs[i].text = text
        /\ RecognitionResult(r, rs)

\* C22: a final transcript that arrives while the AI session is not
\* connected is recorded in the transcript log, issues no send and does
\* not set the processing flag.  Checked under SpecRecognizer.
C22_NoSendBeforeConnected ==
  [][ \A text \in PipeTexts :
        (FinalArrives(text) /\ liveStatus # "connected")
          => /\ \E k \in NewFinals : entries'[k].text = text
             /\ sendsSinceComplete' = sendsSinceComplete
             /\ lastSent' = lastSent
             /\ isProcessing' = isProcessing ]_vars

\* the last of the final entries that the step has put into the log
LastNewFinal == CHOOSE k \in NewFinals : \A n \in NewFinals : n <= k

\* C23: a step issues at most as many sends as it puts final entries into
\* the transcript log, the latest send carries the text of the last of
\* them, and a step that puts no final entry into the log (a partial
\* transcript, interim results) issues no send and leaves the processing
\* flag as it was.  Checked under SpecForward.
C23_OnlyLoggedFinalsForwarded ==
  [][ /\ sendsSinceComplete' > sendsSinceComplete
           => /\ NewFinals # {}
              /\ sendsSinceComplete' - sendsSinceComplete
                   <= Cardinality(NewFinals)
              /\ lastSent' = entries'[LastNewFinal].text
      /\ NewFinals = {}
           => /\ sendsSinceComplete' <= sendsSinceComplete
              /\ lastSent' = lastSent
              /\ isProcessing' = isProcessing ]_vars

\* a final transcript was forwarded, and the partial transcript that came
\* after it is in the log without a second send
C23_Witness ==
  /\ liveStatus = "connected"
  /\ sendsSinceComplete = 1
  /\ lastSent = <<"A">>
  /\ Len(entries) = 2
  /\ entries[1].isFinal /\ entries[1].text = <<"A">>
  /\ ~entries[2].isFinal /\ entries[2].text = <<"B">>

\* the step is a handler run for a transcript event whose only final
\* transcript has this text
OneFinalArrives(text) ==
  \/ \E s \in 1..Len(sockets), speaker \in MessageSpeakers :
        SocketMessage(s, "FinalTranscript", text, speaker)
  \/ \E r \in 1..Len(recognizers), rs \in ResultLists(PipeTexts) :
        /\ Cardinality({ i \in 1..Len(rs) : rs[i].isFinal }) = 1
        /\ \E i \in 1..Len(rs) : rs[i].isFinal /\ rs[i].text = text
        /\ RecognitionResult(r, rs)

\* C24: a final transcript that arrives while the AI session is connected
\* and not processing issues exactly one send, with its text, in the same
\* step, and sets the processing flag.  Checked under SpecForward.
C24_IdleSessionSendsAtOnce ==
  [][ \A text \in PipeTexts :
        (OneFinalArrives(text) /\ liveStatus = "connected" /\ ~isProcessing)
          => /\ sendsSinceComplete' = sendsSinceComplete + 1
             /\ lastSent' = text
             /\ isProcessing' ]_vars

\* C25: the processing flag is set only while a send has not been
\* answered by a turncomplete.  Checked under SpecBridge.
C25_ProcessingTracksOutstanding ==
  isProcessing => sendsSinceComplete > 0

----------------------------------------------------------------------------
(* Claims about the outbound frames of the remote streaming client, checked
   under SpecAudio *)

\* the terminate_session frames sent on socket s, as positions
Terminations(s) ==
  { i \in 1..Len(sockets[s].out) : sockets[s].out[i] = "terminate_session" }

\* at most one terminate_session was sent on each socket, and nothing
\* after it
TerminateOnceAndLast ==
  \A s \in 1..Len(sockets) :
    /\ Cardinality(Terminations(s)) <= 1
    /\ Terminations(s) \subseteq { Len(sockets[s].out) }

\* C26: disconnect() of a client whose socket is open sends exactly one
\* terminate_session on it and leaves it closing, with the frame sent;
\* disconnect() of a client whose socket is not open, or that has none,
\* sends nothing; and at all times each socket has carried at most one
\* terminate_session, with no frame after it.
C26_TerminateIsLastFrame ==
  [][ /\ TerminateOnceAndLast'
      /\ \A c \in 1..Len(clients) :
           CallDisconnect(c) =>
             LET s == clients[c].socket IN
             /\ (s # 0 /\ sockets[s].readyState = "OPEN")
                  => /\ sockets'[s].out =
                          Append(sockets[s].out, "terminate_session")
                     /\ sockets'[s].readyState = "CLOSING"
             /\ \A t \in 1..Len(sockets) :
                  (t # s \/ sockets[s].readyState # "OPEN")
                    => sockets'[t].out = sockets[t].out ]_vars

\* an open socket that had carried audio was disconnected, and another
\* socket was disconnected while it was connecting and got nothing
C26_Witness ==
  \E s, t \in 1..Len(sockets) :
    /\ sockets[s].out = <<"audio_data", "terminate_session">>
    /\ sockets[s].leftIn = "OPEN"
    /\ sockets[t].leftIn = "CONNECTING"
    /\ sockets[t].out = <<>>

----------------------------------------------------------------------------
(* Claims about the inbound frames of the remote streaming client, checked
   under SpecBridge *)

\* C27: a FinalTranscript frame makes the listener of the client run with
\* the text of the frame and isFinal true, a PartialTranscript frame with
\* isFinal false; a frame of any other type and a frame that cannot be
\* parsed change nothing: the log, the clients, the sockets, their error
\* events and the listening flag are as before.
C27_OnlyTranscriptFramesSurface ==
  [][ \A s \in 1..Len(sockets), type \in MessageTypes,
         text \in PipeTexts, speaker \in MessageSpeakers :
        SocketMessage(s, type, text, speaker) =>
          IF type \in TranscriptTypes
          THEN /\ lastOp'.name = "addEntry"
               /\ lastOp'.from = s
               /\ lastOp'.args.text = text
               /\ lastOp'.args.isFinal = (type = "FinalTranscript")
               /\ entries'[Len(entries')].text = text
               /\ entries'[Len(entries')].isFinal
                    = (type = "FinalTranscript")
               /\ sockets'[s].heard
               /\ sockets'[s].signals = sockets[s].signals
               /\ isListening' = isListening
          ELSE vars' = vars ]_vars

\* a session surfaced a final transcript and then a partial one
C27_Witness ==
  \E s \in 1..Len(sockets) :
    /\ sockets[s].heard
    /\ lastOp.name = "addEntry"
    /\ lastOp.from = s
    /\ ~lastOp.args.isFinal
    /\ Len(entries) = 2
    /\ entries[1].isFinal
    /\ ~entries[2].isFinal

----------------------------------------------------------------------------
(* Claims about retries of the remote streaming client, checked under
   SpecAudio *)

\* C28: a socket is constructed only by a connect() call of the caller;
\* a socket failure emits one error event, which clears the listening
\* flag, and neither a failure nor a close constructs a socket or gives
\* the client a socket reference.
C28_NoSelfRetry ==
  [][ /\ Len(sockets') > Len(sockets)
           => \E c \in 1..Len(clients) : CallConnect(c, FALSE)
      /\ \A s \in 1..Len(sockets) :
           /\ SocketFail(s)
                => /\ sockets'[s].signals
                        = Append(sockets[s].signals, "error")
                   /\ ~isListening'
           /\ (SocketFail(s) \/ SocketClose(s))
                => /\ Len(sockets') = Len(sockets)
                   /\ \A c \in 1..Len(clients) :
                        clients'[c].socket = clients[c].socket ]_vars

\* a session failed, the caller connected again and the new session
\* opened
C28_Witness ==
  \E s, t \in 1..Len(sockets) :
    /\ s < t
    /\ s \in Errored
    /\ sockets[s].readyState = "CLOSED"
    /\ sockets[t].signals = <<"open">>

----------------------------------------------------------------------------
(* Claims about errors of the local recognizer, checked under
   SpecRecognizer *)

\* C29: an error of a recognizer other than no-speech clears the
\* listening flag, and the end event that follows such an error does not
\* restart the recognizer.
C29_OtherErrorsStopSession ==
  [][ \A r \in 1..Len(recognizers) :
        /\ \A kind \in RecognitionErrors \ {"no-speech"} :
             RecognitionError(r, kind) => ~isListening'
        /\ ( /\ RecognitionEnd(r)
             /\ recognizers[r].state = "failed"
             /\ recognizers[r].lastError # "no-speech" )
             => recognizers'[r].state = "idle" ]_vars

----------------------------------------------------------------------------
(* Claims about the order of the transcript log, checked under SpecOrder *)

\* the texts of a sequence of results or entries, joined in order
RECURSIVE Joined(_)
Joined(seq) ==
  IF Len(seq) = 0 THEN <<>> ELSE seq[1].text \o Joined(Tail(seq))

\* the final ones among a sequence of results or entries, as texts, in
\* order
RECURSIVE FinalTexts(_)
FinalTexts(seq) ==
  IF Len(seq) = 0 THEN <<>>
  ELSE IF seq[1].isFinal THEN <<seq[1].text>> \o FinalTexts(Tail(seq))
  ELSE FinalTexts(Tail(seq))

\* the step has put the results rs into the log in their order: the
\* entries before a non-final tail are kept, and the entries after them
\* hold the texts of rs in order, the final results as one final entry
\* each, in order
IngestedInOrder(rs) ==
  LET new == SubSeq(entries', Kept + 1, Len(entries')) IN
  /\ \A i \in 1..Kept : entries'[i] = entries[i]
  /\ Joined(new) = Joined(rs)
  /\ FinalTexts(new) = FinalTexts(rs)
  /\ \A i \in 1..(Len(new) - 1) : new[i].isFinal

\* C30: a handler run puts the results of its transcript event into the
\* log in the order the provider delivered them, behind the entries that
\* were there: a result event of a recognizer with its final results
\* followed by its interim results, a frame of the remote client with its
\* one transcript.
C30_ArrivalOrder ==
  [][ /\ \A r \in 1..Len(recognizers), rs \in ResultLists(PipeTexts) :
           RecognitionResult(r, rs) => IngestedInOrder(rs)
      /\ \A s \in 1..Len(sockets), type \in TranscriptTypes,
            text \in PipeTexts, speaker \in MessageSpeakers :
           SocketMessage(s, type, text, speaker)
             => IngestedInOrder(<< [text |-> text,
                                    isFinal |-> type = "FinalTranscript"] >>)
    ]_vars

\* after a final result, one result event with two interim results was
\* put into the log as one entry with their texts in order
C30_Witness ==
  /\ Len(entries) = 2
  /\ entries[1].isFinal
  /\ entries[1].text = <<"B">>
  /\ ~entries[2].isFinal
  /\ entries[2].text = <<"A", "B">>


----------------------------------------------------------------------------
(* Tool calls of the AI session and the integrations tab *)

\* the state after the integrations tab was opened (Sidebar.tsx:306) with
\* the remote provider selected: nothing else has run
InitIntegrations ==
  /\ InitStore
  /\ InitTopicIdle
  /\ turns = <<>>
  /\ InitApp
  /\ provider = "assembly_ai"
  /\ activeTab = "integrations"
  /\ recognitionRef = 0
  /\ recognizers = <<>>
  /\ recWhy = "none"
  /\ isListening = FALSE
  /\ audioSource = "system"
  /\ language = "auto"
  /\ assemblyClientRef = 0
  /\ clients = <<>>
  /\ sockets = <<>>
  /\ liveStatus = "connected"
  /\ isProcessing = FALSE
  /\ sendsSinceComplete = 0
  /\ lastSent = <<>>
  /\ deferred = <<>>

NextToolCall ==
  \/ \E calls \in ToolCallMessages : ToolCall(calls)
  \/ \E mode \in MediaModes : SetMediaMode(mode)
  \/ \E name \in { "Ann", "Bot" } : SetZoomUserName(name)

SpecToolCall == InitIntegrations /\ [][NextToolCall]_vars

JoinCalls(calls) ==
  { i \in 1..Len(calls) : calls[i].name = "join_meeting" }

\* the calls of the message that give a value for the field
Giving(calls, field) ==
  { i \in JoinCalls(calls) : calls[i].args[field] # "" }

Latest(S) == CHOOSE i \in S : \A j \in S : j <= i

\* C31: after a tool-call message, each of meetingId, passcode and userName
\* holds the value of the latest join_meeting call that gave one, and its
\* previous value when a call left it out or empty; joinUrl is unchanged;
\* the media mode is zoom when the message held a join_meeting call; a
\* message of other function calls changes neither the configuration nor
\* the media mode.
C31_JoinMeetingUpdatesConfig ==
  lastToolCall # NoToolCall =>
    LET calls == lastToolCall.calls
        before == lastToolCall.zoomConfig
    IN /\ \A field \in { "meetingId", "passcode", "userName" } :
            zoomConfig[field] =
              IF Giving(calls, field) = {} THEN before[field]
              ELSE calls[Latest(Giving(calls, field))].args[field]
       /\ zoomConfig.joinUrl = before.joinUrl
       /\ mediaMode = IF JoinCalls(calls) = {} THEN lastToolCall.mediaMode
                      ELSE "zoom"

\* the same for the messages that carry one function call
C31_SingleCall ==
  Len(lastToolCall.calls) = 1 => C31_JoinMeetingUpdatesConfig


----------------------------------------------------------------------------
(* The conversation-turn log on its own *)

\* ConversationTurn.role, src/lib/state.ts:200
ConversationRoles == { "user", "agent", "system" }

\* the partial turns handed to updateLastTurn: a streamed text, the final
\* mark, and both
TurnUpdates == { [text |-> <<"B">>], [isFinal |-> TRUE],
                 [text |-> <<"B">>, isFinal |-> FALSE] }

NextTurns ==
  \/ \E role \in ConversationRoles, isFinal \in BOOLEAN :
       AddTurn(role, <<"A">>, isFinal)
  \/ \E update \in TurnUpdates : UpdateLastTurn(update)
  \/ ClearTurns

SpecTurns == Init /\ [][NextTurns]_vars

\* the turns before the last one are kept and the log is not shortened
EarlierTurnsKept ==
  /\ Len(turns') >= Len(turns)
  /\ \A i \in 1..(Len(turns) - 1) : turns'[i] = turns[i]

\* addTurn puts one turn at the end and changes no turn; updateLastTurn
\* keeps the length and changes at most the last turn
TurnOperationsLocal ==
  /\ \A role \in ConversationRoles, isFinal \in BOOLEAN :
       AddTurn(role, <<"A">>, isFinal)
         => /\ Len(turns') = Len(turns) + 1
            /\ \A i \in 1..Len(turns) : turns'[i] = turns[i]
            /\ turns'[Len(turns')].role = role
            /\ turns'[Len(turns')].isFinal = isFinal
  /\ \A update \in TurnUpdates :
       UpdateLastTurn(update)
         => /\ Len(turns') = Len(turns)
            /\ \A i \in 1..(Len(turns) - 1) : turns'[i] = turns[i]

\* C32 as stated: in every step of the conversation-turn log, addTurn adds
\* one turn at the end and changes no existing turn, updateLastTurn keeps
\* the length and changes only the last turn, and no turn before the last
\* is modified or removed.
C32_AppendOnly ==
  [][ TurnOperationsLocal /\ EarlierTurnsKept ]_vars

\* C32 amended: addTurn adds one turn at the end and changes no existing
\* turn, updateLastTurn keeps the length and changes only the last turn,
\* and no turn before the last is modified or removed by a step other than
\* clearTurns, which empties the log.
C32_AppendOnlyUntilCleared ==
  [][ /\ TurnOperationsLocal
      /\ ClearTurns => turns' = <<>>
      /\ ~ClearTurns => EarlierTurnsKept ]_vars

\* the last of two turns was updated and the first one is as it was added
C32_Witness ==
  /\ Len(turns) = 2
  /\ turns[1].text = <<"A">>
  /\ turns[2].text = <<"B">>
  /\ turns[2].isFinal


----------------------------------------------------------------------------
(* Claims about superseded sockets and disconnected sessions *)

\* C33: when disconnect() closed the open socket s and the socket that a
\* later connect() constructed for the same client has opened, the close
\* event of s leaves the connected flag of the client and the audio
\* recorder of the new session as they are.  Checked under SpecClient.
C33_OldCloseLeavesNewSession ==
  [][ \A s \in 1..Len(sockets) :
        ( /\ SocketClose(s)
          /\ sockets[s].leftIn # ""
          /\ clients[sockets[s].client].socket \notin {0, s}
          /\ sockets[clients[sockets[s].client].socket].readyState = "OPEN" )
        => LET c == sockets[s].client
               t == clients[c].socket
           IN /\ clients'[c].isConnected = clients[c].isConnected
              /\ sockets'[t].recorder = sockets[t].recorder ]_vars


\* the Sidebar before the first start request, with either audio input
\* selected (lines 462-470), the remote provider and the AI session
\* connected
InitStopRace ==
  /\ InitStore
  /\ InitTopicIdle
  /\ InitRecognitionIdle
  /\ isListening = FALSE
  /\ audioSource \in AudioSources
  /\ language = "auto"
  /\ assemblyClientRef = 0
  /\ clients = <<>>
  /\ sockets = <<>>
  /\ liveStatus = "connected"
  /\ isProcessing = FALSE
  /\ sendsSinceComplete = 0
  /\ lastSent = NoText
  /\ deferred = NoText

NextStopRace ==
  \/ \E direct \in BOOLEAN, throws \in BOOLEAN :
       StartRecording(direct, throws)
  \/ \E c \in 1..MaxClients, throws \in BOOLEAN,
        outcome \in {"audio", "noaudio", "denied", "stream", "failed"} :
       AcquireDone(c, outcome, throws)
  \/ StopRecording
  \/ \E s \in 1..MaxSockets :
       \/ \E granted \in BOOLEAN : SocketOpen(s, granted)
       \/ SocketClose(s)

\* start and stop requests racing with media acquisition; the audio input
\* and the provider are not changed, so only a stop request clears the
\* listening flag while an acquisition is pending
SpecStopRace == InitStopRace /\ [][NextStopRace]_vars

\* C34: when the acquisition of the first start request completes after a
\* stop request (the listening flag is off), connect() constructs no
\* socket, the Sidebar holds no client, and every track the acquisition
\* returned has been stopped.  Checked under SpecStopRace.
C34_StopCancelsPendingStart ==
  [][ \A c \in 1..Len(clients), throws \in BOOLEAN,
         outcome \in {"audio", "noaudio", "denied", "stream", "failed"} :
        ( /\ AcquireDone(c, outcome, throws)
          /\ Len(clients) = 1
          /\ ~isListening )
        => /\ sockets' = sockets
           /\ assemblyClientRef' = 0
           /\ clients'[c].acquired \subseteq clients'[c].stopped ]_vars


\* C35: while the listening flag is off, no provider session is connecting
\* or open.  Checked under SpecCapture.
C35_NotListeningNoSession ==
  ~isListening => \A s \in 1..Len(sockets) : ~Active(s)


\* what the browser guarantees for a WebSocket: a close() that was called
\* completes with the close event, and a connection attempt settles by
\* opening or failing; the server is not obliged to close an open socket
SocketSettles(s) ==
  \/ SocketClose(s) /\ sockets[s].readyState = "CLOSING"
  \/ /\ \/ \E granted \in BOOLEAN : SocketOpen(s, granted)
        \/ SocketFail(s)
     /\ sockets[s].readyState = "CONNECTING"

\* one AssemblyAIClient under arbitrary calls of connect and disconnect,
\* with the browser completing what it has begun
SpecClientFair ==
  /\ InitClient
  /\ [][NextClient]_vars
  /\ \A s \in 1..MaxSockets : WF_vars(SocketSettles(s))

\* disconnect() dropped socket s
Dropped(s) == s <= Len(sockets) /\ sockets[s].leftIn # ""

\* socket s is closed and the recorder its open handler started, if any,
\* is not running
Released(s) ==
  /\ s <= Len(sockets)
  /\ sockets[s].readyState = "CLOSED"
  /\ sockets[s].recorder # "running"

\* C36: every socket that disconnect() dropped, connecting or open, is
\* eventually closed with its recorder stopped.  Checked under
\* SpecClientFair.
C36_DroppedSocketsAreReleased ==
  \A s \in 1..MaxSockets : Dropped(s) ~> Released(s)


----------------------------------------------------------------------------
(* The local recognizer re-created while it is running *)

\* the state after the local provider was selected with the AI session not
\* connected (SetProvider: the effect of lines 97-150 constructs the first
\* recognizer with connected = false), recording was started
\* (StartRecording: connect() is called, the recognizer is started) and the
\* AI session reported connected (LiveOpen: the effect runs again)
RecreatedStart ==
  /\ turns = <<>>
  /\ InitApp
  /\ provider = "web_speech"
  /\ activeTab = "transcription"
  /\ LET ef == RecognitionEffect(
                 1, <<recognitionStart(NewRecognition(FALSE, "auto"))>>,
                 "transcription", "web_speech", TRUE, "auto")
     IN /\ recognitionRef = ef.ref
        /\ recognizers = ef.recs
  /\ recWhy = "start"
  /\ isListening = TRUE
  /\ audioSource = "system"
  /\ language = "auto"
  /\ assemblyClientRef = 0
  /\ clients = <<>>
  /\ sockets = <<>>
  /\ liveStatus = "connected"
  /\ isProcessing = FALSE
  /\ sendsSinceComplete = 0
  /\ lastSent = NoText
  /\ deferred = NoText

InitRecreated == InitStore /\ InitTopicIdle /\ RecreatedStart

\* violated when the effect may construct a second recognizer: the start
\* state of SpecRecreated is a state the Sidebar reaches
RecreatedStartReached == ~(RecreatedStart /\ entries = <<>>)

NextRecreated ==
  \/ \E direct \in BOOLEAN, throws \in BOOLEAN :
       StartRecording(direct, throws)
  \/ StopRecording
  \/ \E r \in 1..(MaxRecognitions + 1) :
       \/ \E rs \in ResultLists(LifecycleTexts) : RecognitionResult(r, rs)
       \/ RecognitionEnd(r)
  \/ TurnComplete
  \/ ClearEntries

\* the Sidebar with the recognizer it started and the recognizer that
\* replaced it when the AI session connected
SpecRecreated == InitRecreated /\ [][NextRecreated]_vars

Running == { r \in 1..Len(recognizers) : recognizers[r].state = "running" }

\* C37: at most one recognizer is running, and after stop-recording no
\* recognizer is running, so none goes on delivering results.  Checked
\* under SpecRecreated, where the recognizer was re-created while
\* listening.
C37_OneRecognizerStoppedOnStop ==
  /\ Cardinality(Running) <= 1
  /\ (~isListening /\ recWhy = "stop") => Running = {}


\* C38: a final transcript that arrives while the AI session is connected
\* is sent to it in the same step, whatever the session's state was when
\* recording started.  Checked under SpecRecreated, where recording
\* started before the session connected.
C38_ForwardUsesCurrentState ==
  [][ \A text \in PipeTexts :
        (OneFinalArrives(text) /\ liveStatus = "connected")
          => /\ sendsSinceComplete' = sendsSinceComplete + 1
             /\ lastSent' = text ]_vars


----------------------------------------------------------------------------
(* The function declarations under the operations of useTools *)

\* the checkbox of a tool, Sidebar.tsx:358
ToggleTool(toolName) ==
  /\ tools' = toggleTool(tools, toolName)
  /\ UNCHANGED <<storeVars, topicVars, pipeVars_noApp, settingsVars>>

\* the add button, Sidebar.tsx:375
AddTool ==
  /\ Len(tools) < MaxTools
  /\ tools' = addTool(tools)
  /\ UNCHANGED <<storeVars, topicVars, pipeVars_noApp, settingsVars>>

\* the delete button of a tool, Sidebar.tsx:368
RemoveTool(toolName) ==
  /\ tools' = removeTool(tools, toolName)
  /\ UNCHANGED <<storeVars, topicVars, pipeVars_noApp, settingsVars>>

\* the editor saves a tool, Sidebar.tsx:282-285
UpdateTool(oldName, updatedTool) ==
  /\ tools' = updateTool(tools, oldName, updatedTool)
  /\ UNCHANGED <<storeVars, topicVars, pipeVars_noApp, settingsVars>>

NextTools ==
  \/ \E toolName \in ToolNames : ToggleTool(toolName)
  \/ AddTool
  \/ \E toolName \in ToolNames : RemoveTool(toolName)
  \/ \E oldName \in ToolNames, updatedTool \in UpdatedTools :
       UpdateTool(oldName, updatedTool)

SpecTools == Init /\ [][NextTools]_vars

\* no two tools of the list have the same name
UniqueNames(ts) ==
  \A i, j \in 1..Len(ts) : i # j => ts[i].name # ts[j].name

\* C39: no two tools have the same name; the name addTool picks is not in
\* the list; and updateTool with a new name that a tool of the list
\* already has returns the list unchanged.  Checked under SpecTools.
C39_ToolNamesUnique ==
  /\ UniqueNames(tools)
  /\ ~some(tools, addToolName(tools, 0))
  /\ UniqueNames(addTool(tools))
  /\ \A oldName \in ToolNames, updatedTool \in UpdatedTools :
       (oldName # updatedTool.name /\ some(tools, updatedTool.name))
         => updateTool(tools, oldName, updatedTool) = tools

\* a list that addTool filled and in which updateTool renamed and disabled
\* a tool, so that a further rename can collide
C39_Witness ==
  /\ Len(tools) = 3
  /\ some(tools, "leave_meeting")
  /\ some(tools, "new_function_1")
  /\ \E i \in 1..Len(tools) : ~tools[i].isEnabled

====
